---- MODULE Spec2Model ----
(***************************************************************************)
(* Model of the Uniswap V2 quoting and simulation engine of the Ethereum   *)
(* trading MCP server (src/src/uniswap.rs and its callers).                *)
(*                                                                         *)
(* U256 arithmetic is modelled at a reduced width of U256Bits bits: every  *)
(* checked operation overflows at 2^U256Bits - 1 instead of 2^256 - 1, and *)
(* the conversion to u128 overflows at 2^U128Bits.  Byte buffers keep the  *)
(* real layout (32-byte words, 20-byte addresses).                         *)
(***************************************************************************)
EXTENDS Integers, Sequences, FiniteSets, TLC

VARIABLES
    args,       \* arguments of the pure function under evaluation
    ret,        \* its return value, NoRet before the call returns
    prev,       \* arguments and return value of the previous call, or NoRet
    fpc,        \* "idle" | "ready" | "returned"
    provider,   \* UniswapV2Client.provider is Some (TRUE) or None (FALSE);
                \* under SpecSwapTokens the reserves of the pool behind it
    request,    \* the arguments of the running quote_swap / simulate_swap
    pc,         \* position of the request in its async flow
    locals,     \* local variables of the running request
    calls,      \* RPC calls dispatched to the provider so far, in order
    outcome,    \* what the request returned, NoRet while it runs
    tokens      \* TokenRegistry.tokens: key |-> TokenInfo

vars == <<args, ret, prev, fpc, provider, request, pc, locals, calls, outcome, tokens>>

formula_vars == <<args, ret, prev, fpc>>
request_vars == <<provider, request, pc, locals, calls, outcome, tokens>>

----------------------------------------------------------------------------
(* Bounds *)

U256Bits == 20
MaxAmount == 10
MaxReserve == 8
MaxHops == 2
F64MantissaBits == 5

U256Max == 2^U256Bits - 1
U128Bits == U256Bits \div 2
U128Max == 2^U128Bits - 1

----------------------------------------------------------------------------
(* Option and Result values *)

None == [some |-> FALSE]
Some(v) == [some |-> TRUE, val |-> v]

Ok(v) == [ok |-> TRUE, val |-> v]
Err(e) == [ok |-> FALSE, err |-> e]

NoRet == [ok |-> FALSE, err |-> "none"]

----------------------------------------------------------------------------
(* U256 checked arithmetic *)

\* Faulty variant of checked_mul: the product wraps instead of failing.
checked_mul_wrapping(a, b) == Some((a * b) % (U256Max + 1))

checked_mul(a, b) ==
    IF b # 0 /\ a > U256Max \div b THEN None ELSE Some(a * b)

checked_add(a, b) ==
    IF a > U256Max - b THEN None ELSE Some(a + b)

----------------------------------------------------------------------------
(* AMM formula engine *)

\* Faulty variant of calculate_amount_out: the final division rounds up.
calculate_amount_out_roundup(amount_in, reserve_in, reserve_out) ==
    IF amount_in = 0 THEN Err("InvalidAmount")
    ELSE IF reserve_in = 0 \/ reserve_out = 0 THEN Err("InsufficientLiquidity")
    ELSE LET amount_in_with_fee == checked_mul(amount_in, 997) IN
         IF ~amount_in_with_fee.some THEN Err("InvalidAmount")
         ELSE LET numerator == checked_mul(amount_in_with_fee.val, reserve_out) IN
              IF ~numerator.some THEN Err("InvalidAmount")
              ELSE LET scaled == checked_mul(reserve_in, 1000) IN
                   IF ~scaled.some THEN Err("InvalidAmount")
                   ELSE LET denominator ==
                                checked_add(scaled.val, amount_in_with_fee.val)
                        IN  IF ~denominator.some THEN Err("InvalidAmount")
                            ELSE Ok((numerator.val + denominator.val - 1)
                                        \div denominator.val)

\* Faulty variant of calculate_amount_out: 997 and 1000 exchanged.
calculate_amount_out_fee_swapped(amount_in, reserve_in, reserve_out) ==
    IF amount_in = 0 THEN Err("InvalidAmount")
    ELSE IF reserve_in = 0 \/ reserve_out = 0 THEN Err("InsufficientLiquidity")
    ELSE LET amount_in_with_fee == checked_mul(amount_in, 1000) IN
         IF ~amount_in_with_fee.some THEN Err("InvalidAmount")
         ELSE LET numerator == checked_mul(amount_in_with_fee.val, reserve_out) IN
              IF ~numerator.some THEN Err("InvalidAmount")
              ELSE LET scaled == checked_mul(reserve_in, 997) IN
                   IF ~scaled.some THEN Err("InvalidAmount")
                   ELSE LET denominator ==
                                checked_add(scaled.val, amount_in_with_fee.val)
                        IN  IF ~denominator.some THEN Err("InvalidAmount")
                            ELSE Ok(numerator.val \div denominator.val)

\* Faulty variant of calculate_amount_out: reserve_in is not scaled by 1000
\* in the denominator.
calculate_amount_out_reserve_unscaled(amount_in, reserve_in, reserve_out) ==
    IF amount_in = 0 THEN Err("InvalidAmount")
    ELSE IF reserve_in = 0 \/ reserve_out = 0 THEN Err("InsufficientLiquidity")
    ELSE LET amount_in_with_fee == checked_mul(amount_in, 997) IN
         IF ~amount_in_with_fee.some THEN Err("InvalidAmount")
         ELSE LET numerator == checked_mul(amount_in_with_fee.val, reserve_out) IN
              IF ~numerator.some THEN Err("InvalidAmount")
              ELSE LET denominator ==
                           checked_add(reserve_in, amount_in_with_fee.val)
                   IN  IF ~denominator.some THEN Err("InvalidAmount")
                       ELSE Ok(numerator.val \div denominator.val)

calculate_amount_out(amount_in, reserve_in, reserve_out) ==
    IF amount_in = 0 THEN Err("InvalidAmount")
    ELSE IF reserve_in = 0 \/ reserve_out = 0 THEN Err("InsufficientLiquidity")
    ELSE LET amount_in_with_fee == checked_mul(amount_in, 997) IN
         IF ~amount_in_with_fee.some THEN Err("InvalidAmount")
         ELSE LET numerator == checked_mul(amount_in_with_fee.val, reserve_out) IN
              IF ~numerator.some THEN Err("InvalidAmount")
              ELSE LET scaled == checked_mul(reserve_in, 1000) IN
                   IF ~scaled.some THEN Err("InvalidAmount")
                   ELSE LET denominator ==
                                checked_add(scaled.val, amount_in_with_fee.val)
                        IN  IF ~denominator.some THEN Err("InvalidAmount")
                            ELSE Ok(numerator.val \div denominator.val)

\* U256::as_u128 panics when the value does not fit 128 bits.
Panic == [ok |-> FALSE, err |-> "panic"]

IsPanic(r) == ~r.ok /\ r.err = "panic"

as_u128(v) == IF v > U128Max THEN Panic ELSE Ok(v)

\* Number of significant bits of n.
BitLength(n) == CHOOSE k \in 0..(U256Bits + 1) : 2^k > n /\ (k = 0 \/ 2^(k - 1) <= n)

\* `n as f64`: the nearest value with F64MantissaBits significant bits, ties
\* to even.  An f64 is kept as the integer it holds.
as_f64(n) ==
    IF BitLength(n) <= F64MantissaBits THEN n
    ELSE LET e == BitLength(n) - F64MantissaBits
             q == n \div 2^e
             r == n % 2^e
             half == 2^(e - 1)
         IN  IF r > half \/ (r = half /\ q % 2 = 1) THEN (q + 1) * 2^e ELSE q * 2^e

\* An f64 quotient x / d, kept as the pair of x and d.
Ratio(x, d) == [num |-> x, den |-> d]

\* Faulty variant of calculate_price_impact: divides before scaling.
calculate_price_impact_divide_first(amount_in, reserve_in) ==
    IF reserve_in = 0 THEN Err("InsufficientLiquidity")
    ELSE LET impact_scaled == checked_mul(amount_in \div reserve_in, 10000) IN
         IF ~impact_scaled.some THEN Err("InvalidAmount")
         ELSE LET impact_u128 == as_u128(impact_scaled.val) IN
              IF ~impact_u128.ok THEN impact_u128
              ELSE Ok(Ratio(as_f64(impact_u128.val), 100))

calculate_price_impact(amount_in, reserve_in) ==
    IF reserve_in = 0 THEN Err("InsufficientLiquidity")
    ELSE LET scaled == checked_mul(amount_in, 10000) IN
         IF ~scaled.some THEN Err("InvalidAmount")
         ELSE LET impact_scaled == scaled.val \div reserve_in
                  impact_u128 == as_u128(impact_scaled)
              IN  IF ~impact_u128.ok THEN impact_u128
                  ELSE Ok(Ratio(as_f64(impact_u128.val), 100))

\* Faulty variant of calculate_amounts_out: every hop takes the first amount.
RECURSIVE amounts_out_loop_first_input(_, _, _)
amounts_out_loop_first_input(amounts, reserves, i) ==
    IF i > Len(reserves) THEN Ok(amounts)
    ELSE LET amount_out ==
                 calculate_amount_out(amounts[1], reserves[i][1], reserves[i][2])
         IN  IF ~amount_out.ok THEN amount_out
             ELSE amounts_out_loop_first_input(Append(amounts, amount_out.val),
                                               reserves, i + 1)

calculate_amounts_out_first_input(amount_in, reserves) ==
    amounts_out_loop_first_input(<<amount_in>>, reserves, 1)

\* The loop of calculate_amounts_out from hop i on, amounts holding the
\* amounts pushed so far.
RECURSIVE amounts_out_loop(_, _, _)
amounts_out_loop(amounts, reserves, i) ==
    IF i > Len(reserves) THEN Ok(amounts)
    ELSE LET amount_out ==
                 calculate_amount_out(amounts[Len(amounts)],
                                      reserves[i][1], reserves[i][2])
         IN  IF ~amount_out.ok THEN amount_out
             ELSE amounts_out_loop(Append(amounts, amount_out.val), reserves, i + 1)

calculate_amounts_out(amount_in, reserves) ==
    amounts_out_loop(<<amount_in>>, reserves, 1)

----------------------------------------------------------------------------
(* Bytes, words and addresses *)

Zeros(n) == [i \in 1..n |-> 0]

\* Address::zero()
ZeroAddress == Zeros(20)

\* 0xC02aaA39b223FE8D0A0e5C4F27eAD9083C756Cc2
weth ==
    <<192, 42, 170, 57, 178, 35, 254, 141, 10, 14,
      92, 79, 39, 234, 217, 8, 60, 117, 108, 194>>

\* 0x6B175474E89094C44Da98b954EedeAC495271d0F, below weth
DAI ==
    <<107, 23, 84, 116, 232, 144, 148, 196, 77, 169,
      139, 149, 78, 237, 234, 196, 149, 39, 29, 15>>

\* 0xdAC17F958D2ee523a2206206994597C13D831ec7, above weth
USDT ==
    <<218, 193, 127, 149, 141, 46, 229, 35, 162, 32,
      98, 6, 153, 69, 151, 193, 61, 131, 30, 199>>

\* 0x5C69bEe701ef814a2B6a3EDD4B1652CB9cc5aA6f
factory_address ==
    <<92, 105, 190, 231, 1, 239, 129, 74, 43, 106,
      62, 221, 75, 22, 82, 203, 156, 197, 170, 111>>

\* 0x7a250d5630B4cF539739dF2C5dAcb4c659F2488D
router_address ==
    <<122, 37, 13, 86, 48, 180, 207, 83, 151, 57,
      223, 44, 93, 172, 180, 198, 89, 242, 72, 141>>

\* 0xd8dA6BF26964aF9D7eEd9e03E53415D37aA96045, the default simulation address
simulation_address ==
    <<216, 218, 107, 242, 105, 100, 175, 157, 126, 237,
      158, 3, 229, 52, 21, 211, 122, 169, 96, 69>>

\* Two pool addresses the factory may answer with.
PoolA ==
    <<164, 120, 194, 151, 90, 177, 234, 137, 232, 25,
      104, 17, 245, 26, 123, 122, 222, 51, 235, 17>>

PoolB ==
    <<13, 74, 17, 213, 238, 170, 194, 142, 195, 246,
      29, 16, 13, 175, 77, 64, 71, 31, 24, 82>>

\* The order of Address: unsigned bytes, most significant first.
AddressLess(a, b) ==
    \E i \in 1..20 : a[i] < b[i] /\ \A j \in 1..(i - 1) : a[j] = b[j]

\* U256::to_big_endian into a 32-byte buffer; a modelled value has at most
\* four non-zero bytes.
to_big_endian(v) ==
    [i \in 1..32 |-> IF i <= 28 THEN 0 ELSE (v \div 256^(32 - i)) % 256]

RECURSIVE big_endian_prefix(_, _)
big_endian_prefix(bytes, n) ==
    IF n = 0 THEN 0 ELSE big_endian_prefix(bytes, n - 1) * 256 + bytes[n]

\* U256::from_big_endian
from_big_endian(bytes) == big_endian_prefix(bytes, Len(bytes))

\* A 20-byte address right-aligned in a 32-byte word.
address_word(addr) == Zeros(12) \o addr

----------------------------------------------------------------------------
(* Reserve query layer *)

get_pair_call(token_a, token_b) ==
    [method |-> "eth_call", to |-> factory_address, from |-> None,
     data |-> <<230, 164, 57, 5>> \o address_word(token_a) \o address_word(token_b)]

\* Faulty variant of get_pair: the zero test looks at the whole word.
get_pair_return_whole_word(response) ==
    IF ~response.ok THEN Err("ProviderError")
    ELSE LET result == response.val IN
         IF Len(result) # 32 THEN Err("AbiError")
         ELSE LET pair_address == SubSeq(result, 13, 32) IN
              IF result = Zeros(32) THEN Err("PairNotFound")
              ELSE Ok(pair_address)

\* Faulty variant of get_pair_return: a failed provider call is not
\* propagated, the loop goes on with the zero address.
get_pair_return_failure_ignored(response) ==
    IF ~response.ok THEN Ok(ZeroAddress)
    ELSE LET result == response.val IN
         IF Len(result) # 32 THEN Err("AbiError")
         ELSE LET pair_address == SubSeq(result, 13, 32) IN
              IF pair_address = ZeroAddress THEN Err("PairNotFound")
              ELSE Ok(pair_address)

\* get_pair from the provider's answer on: response is the result of
\* provider.call.
get_pair_return(response) ==
    IF ~response.ok THEN Err("ProviderError")
    ELSE LET result == response.val IN
         IF Len(result) # 32 THEN Err("AbiError")
         ELSE LET pair_address == SubSeq(result, 13, 32) IN
              IF pair_address = ZeroAddress THEN Err("PairNotFound")
              ELSE Ok(pair_address)

get_reserves_call(pair) ==
    [method |-> "eth_call", to |-> pair, from |-> None, data |-> <<9, 2, 241, 172>>]

\* Faulty variant of get_reserves_return: a pool is refused only when both
\* of its reserves are zero.
get_reserves_return_both_zero(response) ==
    IF ~response.ok THEN Err("ProviderError")
    ELSE LET result == response.val IN
         IF Len(result) < 64 THEN Err("AbiError")
         ELSE LET reserve0 == from_big_endian(SubSeq(result, 1, 32))
                  reserve1 == from_big_endian(SubSeq(result, 33, 64))
              IN  IF reserve0 = 0 /\ reserve1 = 0 THEN Err("InsufficientLiquidity")
                  ELSE Ok(<<reserve0, reserve1>>)

\* get_reserves from the provider's answer on.
get_reserves_return(response) ==
    IF ~response.ok THEN Err("ProviderError")
    ELSE LET result == response.val IN
         IF Len(result) < 64 THEN Err("AbiError")
         ELSE LET reserve0 == from_big_endian(SubSeq(result, 1, 32))
                  reserve1 == from_big_endian(SubSeq(result, 33, 64))
              IN  IF reserve0 = 0 \/ reserve1 = 0 THEN Err("InsufficientLiquidity")
                  ELSE Ok(<<reserve0, reserve1>>)

\* Faulty variant of hop_reserves: the pool's slots are taken in position
\* order whatever the addresses are.
hop_reserves_by_position(token_a, token_b, reserve0, reserve1) ==
    <<reserve0, reserve1>>

\* (reserve_in, reserve_out) of the hop token_a -> token_b.
hop_reserves(token_a, token_b, reserve0, reserve1) ==
    IF AddressLess(token_a, token_b) THEN <<reserve0, reserve1>>
    ELSE <<reserve1, reserve0>>

----------------------------------------------------------------------------
(* Swap simulation orchestrator *)

quote_swap_path(token_in, token_out) ==
    IF token_in = weth \/ token_out = weth THEN <<token_in, token_out>>
    ELSE <<token_in, weth, token_out>>

\* Faulty variant of simulate_swap's path: always the direct hop.
simulate_swap_path_direct(token_in, token_out) == <<token_in, token_out>>

\* The path simulate_swap builds again for the router call.
simulate_swap_path(token_in, token_out) ==
    IF token_in = weth \/ token_out = weth THEN <<token_in, token_out>>
    ELSE <<token_in, weth, token_out>>

RECURSIVE path_words(_)
path_words(addrs) ==
    IF addrs = <<>> THEN <<>> ELSE address_word(Head(addrs)) \o path_words(Tail(addrs))

\* Faulty variant of swap_calldata: the recipient word is written before
\* the path offset.
swap_calldata_recipient_first(amount_in, amount_out_min, to_addr, addrs) ==
    <<56, 237, 23, 57>>
        \o to_big_endian(amount_in)
        \o to_big_endian(amount_out_min)
        \o address_word(to_addr)
        \o (Zeros(31) \o <<160>>)
        \o [i \in 1..32 |-> 255]
        \o to_big_endian(Len(addrs))
        \o path_words(addrs)

\* The swapExactTokensForTokens calldata of simulate_swap.
swap_calldata(amount_in, amount_out_min, to_addr, addrs) ==
    <<56, 237, 23, 57>>
        \o to_big_endian(amount_in)
        \o to_big_endian(amount_out_min)
        \o (Zeros(31) \o <<160>>)
        \o address_word(to_addr)
        \o [i \in 1..32 |-> 255]
        \o to_big_endian(Len(addrs))
        \o path_words(addrs)

\* UniswapError::Other("需要提供有效的钱包地址进行模拟")
MissingSimulationAddress == Err("Other")

\* Faulty variant of to_addr_of: a missing address becomes the zero address.
to_addr_or_zero(from_address) ==
    IF from_address.some THEN Ok(from_address.val) ELSE Ok(ZeroAddress)

\* from_address.ok_or_else(..): the recipient and sender of the router call.
to_addr_of(from_address) ==
    IF from_address.some THEN Ok(from_address.val) ELSE MissingSimulationAddress

\* An error text is the sequence of its fragments.
contains(error_msg, pattern) == \E i \in 1..Len(error_msg) : error_msg[i] = pattern

\* Faulty variant of extract_revert_reason: no reason for an unmatched text.
extract_revert_reason_unmatched_none(error_msg) ==
    IF contains(error_msg, "execution reverted") THEN Some(error_msg)
    ELSE IF contains(error_msg, "insufficient")
    THEN Some(<<"Insufficient liquidity or balance">>)
    ELSE IF contains(error_msg, "TRANSFER_FROM_FAILED")
    THEN Some(<<"Token transfer failed (check allowance)">>)
    ELSE IF contains(error_msg, "EXPIRED")
    THEN Some(<<"Transaction deadline expired">>)
    ELSE None

\* Faulty variant of extract_revert_reason: the insufficient, transfer and
\* deadline patterns are looked for before the generic revert.
extract_revert_reason_revert_last(error_msg) ==
    IF contains(error_msg, "insufficient")
    THEN Some(<<"Insufficient liquidity or balance">>)
    ELSE IF contains(error_msg, "TRANSFER_FROM_FAILED")
    THEN Some(<<"Token transfer failed (check allowance)">>)
    ELSE IF contains(error_msg, "EXPIRED")
    THEN Some(<<"Transaction deadline expired">>)
    ELSE Some(error_msg)

extract_revert_reason(error_msg) ==
    IF contains(error_msg, "execution reverted") THEN Some(error_msg)
    ELSE IF contains(error_msg, "insufficient")
    THEN Some(<<"Insufficient liquidity or balance">>)
    ELSE IF contains(error_msg, "TRANSFER_FROM_FAILED")
    THEN Some(<<"Token transfer failed (check allowance)">>)
    ELSE IF contains(error_msg, "EXPIRED")
    THEN Some(<<"Transaction deadline expired">>)
    ELSE Some(error_msg)

SwapQuote(path, amount_out, price_impact, pair_addresses) ==
    [path |-> path, amount_out |-> amount_out, price_impact |-> price_impact,
     pair_addresses |-> pair_addresses]

SwapSimulation(quote, gas_estimate, simulation_success, revert_reason) ==
    [quote |-> quote, gas_estimate |-> gas_estimate,
     simulation_success |-> simulation_success, revert_reason |-> revert_reason]

----------------------------------------------------------------------------
(* Decimal texts: a String is the sequence of its characters *)

\* Largest decimal count of a token (u8::MAX at the model's width).
MaxDecimals == 8

DigitChars == <<"0", "1", "2", "3", "4", "5", "6", "7", "8", "9">>

is_digit(c) == \E k \in 1..10 : DigitChars[k] = c

digit_value(c) == (CHOOSE k \in 1..10 : DigitChars[k] = c) - 1

\* U256::to_string: the decimal digits of n, no leading zero.
RECURSIVE to_string(_)
to_string(n) ==
    IF n < 10 THEN <<DigitChars[n + 1]>>
    ELSE Append(to_string(n \div 10), DigitChars[(n % 10) + 1])

\* "0".repeat(n)
repeat_zero(n) == [k \in 1..n |-> "0"]

\* format!("{:0width$}", n): n in decimal, zeros in front up to width.
zero_padded(n, width) ==
    LET digits == to_string(n) IN
    IF Len(digits) >= width THEN digits
    ELSE repeat_zero(width - Len(digits)) \o digits

RECURSIVE trim_end_matches(_, _)
trim_end_matches(text, c) ==
    IF text # <<>> /\ text[Len(text)] = c
    THEN trim_end_matches(SubSeq(text, 1, Len(text) - 1), c)
    ELSE text

\* U256 `*`: panics when the product does not fit.
u256_mul(a, b) ==
    IF b # 0 /\ a > U256Max \div b THEN Panic ELSE Ok(a * b)

\* The loop of U256::pow (exponentiation by squaring) while n > 1.
RECURSIVE pow_loop(_, _, _)
pow_loop(x, y, n) ==
    IF n <= 1 THEN u256_mul(x, y)
    ELSE LET xx == u256_mul(x, x) IN
         IF n % 2 = 0
         THEN IF ~xx.ok THEN Panic ELSE pow_loop(xx.val, y, n \div 2)
         ELSE LET xy == u256_mul(x, y) IN
              IF ~xy.ok \/ ~xx.ok THEN Panic
              ELSE pow_loop(xx.val, xy.val, n \div 2)

\* U256::pow: panics when the power does not fit.
pow(base, expon) == IF expon = 0 THEN Ok(1) ELSE pow_loop(base, 1, expon)

format_units(amount, decimals) ==
    IF decimals = 0 THEN Ok(to_string(amount))
    ELSE LET divisor == pow(10, decimals) IN
         IF ~divisor.ok THEN Panic
         ELSE LET integer_part == amount \div divisor.val
                  fractional_part == amount % divisor.val
              IN  IF fractional_part = 0 THEN Ok(to_string(integer_part))
                  ELSE LET fractional_str == zero_padded(fractional_part, decimals)
                           trimmed == trim_end_matches(fractional_str, "0")
                       IN  IF trimmed = <<>> THEN Ok(to_string(integer_part))
                           ELSE Ok(to_string(integer_part) \o <<".">> \o trimmed)

----------------------------------------------------------------------------
(* rust_decimal's Decimal: a sign, an integer mantissa and a scale, the value
   being mantissa / 10^scale *)

\* Width of the mantissa (96 bits against U256's 256).
DecimalBits == U256Bits \div 2
DecimalMax == 2^DecimalBits - 1

\* Largest scale: the most digits every mantissa can hold (28 for 96 bits).
MaxScale == CHOOSE s \in 0..DecimalBits : 10^s <= DecimalMax /\ 10^(s + 1) > DecimalMax

Dec(negative, mantissa, scale) ==
    [negative |-> negative, mantissa |-> mantissa, scale |-> scale]

\* Decimal::from_str out of digits: the next character decides whether the
\* mantissa kept so far is rounded up; the rest of the text is not read.
maybe_round(data, next_byte, scale, negative) ==
    IF ~is_digit(next_byte) THEN Err("ParseError")
    ELSE IF digit_value(next_byte) < 5 THEN Ok(Dec(negative, data, scale))
    ELSE IF data + 1 <= DecimalMax THEN Ok(Dec(negative, data + 1, scale))
    ELSE IF scale = 0 THEN Err("ParseError")
    ELSE Ok(Dec(negative, (data + 5) \div 10, scale - 1))

\* Decimal::from_str after the sign: digits are added to the mantissa, each
\* digit after the point raising the scale.  Too many integer digits are an
\* error, too many fractional digits are rounded away.
RECURSIVE parse_digits(_, _, _, _, _, _)
parse_digits(bytes, data, scale, point, has_digit, negative) ==
    IF bytes = <<>>
    THEN IF has_digit THEN Ok(Dec(negative, data, scale)) ELSE Err("ParseError")
    ELSE LET b == Head(bytes)
             rest == Tail(bytes)
         IN  IF is_digit(b)
             THEN LET next == data * 10 + digit_value(b) IN
                  IF next > DecimalMax
                  THEN IF ~point THEN Err("ParseError")
                       ELSE maybe_round(data, b, scale, negative)
                  ELSE LET new_scale == IF point THEN scale + 1 ELSE scale IN
                       IF rest # <<>> /\ point /\ new_scale >= MaxScale
                       THEN maybe_round(next, Head(rest), new_scale, negative)
                       ELSE parse_digits(rest, next, new_scale, point, TRUE, negative)
             ELSE IF b = "." /\ ~point
             THEN parse_digits(rest, data, scale, TRUE, has_digit, negative)
             ELSE Err("ParseError")

\* Decimal::from_str
decimal_from_str(text) ==
    IF text = <<>> THEN Err("ParseError")
    ELSE IF Head(text) = "-" THEN parse_digits(Tail(text), 0, 0, FALSE, FALSE, TRUE)
    ELSE parse_digits(text, 0, 0, FALSE, FALSE, FALSE)

\* Decimal::to_string: every digit of the scale is written.
decimal_to_string(decimal) ==
    LET digits == zero_padded(decimal.mantissa, decimal.scale + 1)
        whole_len == Len(digits) - decimal.scale
        sign == IF decimal.negative THEN <<"-">> ELSE <<>>
    IN  IF decimal.scale = 0 THEN sign \o digits
        ELSE sign \o SubSeq(digits, 1, whole_len) \o <<".">>
                  \o SubSeq(digits, whole_len + 1, Len(digits))

\* str::find('.'): the position of the first point, 0 for none.
find_point(text) ==
    IF \E k \in 1..Len(text) : text[k] = "."
    THEN CHOOSE k \in 1..Len(text) :
             text[k] = "." /\ \A j \in 1..(k - 1) : text[j] # "."
    ELSE 0

\* U256::from_dec_str from value on.
RECURSIVE from_dec_str_loop(_, _)
from_dec_str_loop(res, bytes) ==
    IF bytes = <<>> THEN Ok(res)
    ELSE IF ~is_digit(Head(bytes)) THEN Err("InvalidCharacter")
    ELSE LET r == checked_mul(res, 10) IN
         IF ~r.some THEN Err("InvalidLength")
         ELSE LET sum == checked_add(r.val, digit_value(Head(bytes))) IN
              IF ~sum.some THEN Err("InvalidLength")
              ELSE from_dec_str_loop(sum.val, Tail(bytes))

from_dec_str(text) == from_dec_str_loop(0, text)

parse_units(amount_str, decimals) ==
    LET decimal == decimal_from_str(amount_str) IN
    IF ~decimal.ok THEN Err("ParseFailed")
    ELSE IF decimal.val.negative THEN Err("NegativeAmount")
    ELSE LET decimal_str == decimal_to_string(decimal.val)
             dot_pos == find_point(decimal_str)
             integer_part == IF dot_pos = 0 THEN decimal_str
                             ELSE SubSeq(decimal_str, 1, dot_pos - 1)
             fractional_part == IF dot_pos = 0 THEN <<>>
                                ELSE SubSeq(decimal_str, dot_pos + 1, Len(decimal_str))
         IN  IF Len(fractional_part) > decimals THEN Err("PrecisionExceeded")
             ELSE LET padding_zeros == decimals - Len(fractional_part)
                      final_str == integer_part \o fractional_part
                                       \o repeat_zero(padding_zeros)
                      value == from_dec_str(final_str)
                  IN  IF ~value.ok THEN Err("AmountTooLarge") ELSE value

----------------------------------------------------------------------------
(* Price ratio of two reserves *)

\* Digits of the internal precision factor (18 at 256 bits) and of the
\* fraction of a price (6 at 256 bits), at the model's width.
PrecisionDigits == U256Bits \div 8
PriceDigits == U256Bits \div 16

\* A Decimal without the trailing zeros of its fraction.
RECURSIVE decimal_normalize(_)
decimal_normalize(decimal) ==
    IF decimal.scale > 0 /\ decimal.mantissa % 10 = 0
    THEN decimal_normalize(Dec(decimal.negative, decimal.mantissa \div 10,
                               decimal.scale - 1))
    ELSE decimal

\* Number of decimal digits of n.
digit_count(n) == Len(to_string(n))

\* Decimal `/` by a power of ten of scale 0: the quotient is exact, the
\* digits it needs and no more.
decimal_div(a, b) ==
    decimal_normalize(Dec(a.negative, a.mantissa, a.scale + digit_count(b.mantissa) - 1))

\* n / d rounded to the nearest integer, halves to the even one.
round_half_even(n, d) ==
    LET q == n \div d
        r == n % d
    IN  IF 2 * r > d \/ (2 * r = d /\ q % 2 = 1) THEN q + 1 ELSE q

\* Decimal `*`: the product of the mantissas at the sum of the scales,
\* rounded to fewer places when its scale or its mantissa is too large;
\* panics when the value itself is too large.
decimal_mul(a, b) ==
    LET product == a.mantissa * b.mantissa
        scale == a.scale + b.scale
        least == IF scale > MaxScale THEN scale - MaxScale ELSE 0
        drops == {t \in least..scale :
                      round_half_even(product, 10^t) <= DecimalMax}
    IN  IF drops = {} THEN Panic
        ELSE LET t == CHOOSE t \in drops : \A u \in drops : t <= u IN
             Ok(Dec(FALSE, round_half_even(product, 10^t), scale - t))

\* What format!("{:.N}") does with the digits of a Decimal beyond the N-th:
\* releases of rust_decimal cut them or round them.
DisplayRoundings == {"truncate", "half_even", "half_away"}

\* format!("{:.places$}", decimal)
decimal_format(decimal, places, rounding) ==
    LET shown ==
            IF decimal.scale <= places
            THEN decimal.mantissa * 10^(places - decimal.scale)
            ELSE LET d == 10^(decimal.scale - places)
                     q == decimal.mantissa \div d
                     r == decimal.mantissa % d
                 IN  CASE rounding = "truncate" -> q
                       [] rounding = "half_even" -> round_half_even(decimal.mantissa, d)
                       [] OTHER -> IF 2 * r >= d THEN q + 1 ELSE q
        digits == zero_padded(shown, places + 1)
        whole_len == Len(digits) - places
    IN  IF places = 0 THEN digits
        ELSE SubSeq(digits, 1, whole_len) \o <<".">>
                 \o SubSeq(digits, whole_len + 1, Len(digits))

\* Faulty variant of u256_to_decimal_safe: the value is refused from a
\* quarter of the Decimal range on.
u256_to_decimal_safe_narrow(value) ==
    IF value > DecimalMax \div 4 THEN Err("ParseError")
    ELSE decimal_from_str(to_string(value))

u256_to_decimal_safe(value) == decimal_from_str(to_string(value))

\* decimal_pow10: 1 followed by n zeros, or 1 when Decimal cannot hold it.
decimal_pow10(n) ==
    LET parsed == decimal_from_str(<<"1">> \o repeat_zero(n)) IN
    IF parsed.ok THEN parsed.val ELSE Dec(FALSE, 1, 0)

format_u256_division_internal(numerator, denominator, decimal_places) ==
    IF denominator = 0 THEN Ok(<<"0">>)
    ELSE LET integer_part == numerator \div denominator
             remainder == numerator % denominator
         IN  IF remainder = 0 THEN Ok(to_string(integer_part) \o <<".", "0">>)
             ELSE LET scale == pow(10, decimal_places) IN
                  IF ~scale.ok THEN Panic
                  ELSE LET scaled == u256_mul(remainder, scale.val) IN
                       IF ~scaled.ok THEN Panic
                       ELSE LET fractional_scaled == scaled.val \div denominator
                                frac_str == zero_padded(fractional_scaled, decimal_places)
                                frac_trimmed == trim_end_matches(frac_str, "0")
                                frac_display == IF frac_trimmed = <<>> THEN <<"0">>
                                                ELSE frac_trimmed
                            IN  Ok(to_string(integer_part) \o <<".">> \o frac_display)

\* |a - b| of two decimal counts.
abs_diff(a, b) == IF a >= b THEN a - b ELSE b - a

format_u256_division_fallback(numerator, denominator, numerator_decimals, denominator_decimals) ==
    IF denominator = 0 THEN Ok(<<"0">>)
    ELSE LET scale == pow(10, abs_diff(numerator_decimals, denominator_decimals)) IN
         IF ~scale.ok THEN Panic
         ELSE IF numerator_decimals >= denominator_decimals
         THEN LET num == u256_mul(numerator, scale.val) IN
              IF ~num.ok THEN Panic
              ELSE format_u256_division_internal(num.val, denominator, PriceDigits)
         ELSE LET denom == u256_mul(denominator, scale.val) IN
              IF ~denom.ok THEN Panic
              ELSE format_u256_division_internal(numerator, denom.val, PriceDigits)

\* What calculate_price_ratio returned, and the path that produced it.
Via(path, result) == [path |-> path, result |-> result]

\* calculate_price_ratio; rounding is what the Decimal library of the build
\* does when it formats at a fixed number of places.
calculate_price_ratio(numerator_reserve, denominator_reserve, numerator_decimals, denominator_decimals, rounding) ==
    IF denominator_reserve = 0 THEN Via("zero", Ok(<<"0">>))
    ELSE LET precision_scale == pow(10, PrecisionDigits)
             scaled == IF precision_scale.ok
                       THEN u256_mul(numerator_reserve, precision_scale.val)
                       ELSE Panic
         IN  IF ~scaled.ok THEN Via("none", Panic)
             ELSE
             LET ratio_scaled == scaled.val \div denominator_reserve
                 ratio_dec == u256_to_decimal_safe(ratio_scaled)
             IN  IF ~ratio_dec.ok
                 THEN Via("fallback",
                          format_u256_division_fallback(
                              numerator_reserve, denominator_reserve,
                              numerator_decimals, denominator_decimals))
                 ELSE
                 LET pow10 == decimal_pow10(abs_diff(numerator_decimals,
                                                     denominator_decimals))
                     decimals_adjustment ==
                         IF numerator_decimals >= denominator_decimals THEN pow10
                         ELSE decimal_div(Dec(FALSE, 1, 0), pow10)
                     scale_18 == decimal_from_str(<<"1">> \o repeat_zero(PrecisionDigits)).val
                     price_scaled == decimal_div(ratio_dec.val, scale_18)
                     final_price == decimal_mul(price_scaled, decimals_adjustment)
                 IN  IF ~final_price.ok THEN Via("primary", Panic)
                     ELSE Via("primary",
                              Ok(trim_end_matches(
                                     trim_end_matches(
                                         decimal_format(final_price.val, PriceDigits,
                                                        rounding), "0"), ".")))

----------------------------------------------------------------------------
(* ERC20 metadata decoding *)

\* Width of usize at the model's scale (64 bits against U256's 256).
UsizeBits == 8
UsizeMax == 2^UsizeBits - 1

\* U256::as_usize: panics when the value does not fit.
as_usize(v) == IF v > UsizeMax THEN Panic ELSE Ok(v)

\* U256::from_big_endian(word).as_usize(): a word with a non-zero byte above
\* its low three is beyond usize.
word_as_usize(word) ==
    IF \E k \in 1..29 : word[k] # 0 THEN Panic
    ELSE as_usize(from_big_endian(word))

\* A continuation byte of a UTF-8 sequence.
is_continuation(b) == b >= 128 /\ b <= 191

\* String::from_utf8 accepts bytes from position i on.
RECURSIVE utf8_valid_from(_, _)
utf8_valid_from(bytes, i) ==
    LET n == Len(bytes)
        b == bytes[i]
        cont(k) == i + k <= n /\ is_continuation(bytes[i + k])
        second(lo, hi) == i + 1 <= n /\ bytes[i + 1] >= lo /\ bytes[i + 1] <= hi
    IN  IF i > n THEN TRUE
        ELSE IF b <= 127 THEN utf8_valid_from(bytes, i + 1)
        ELSE IF b >= 194 /\ b <= 223 THEN cont(1) /\ utf8_valid_from(bytes, i + 2)
        ELSE IF b >= 224 /\ b <= 239
        THEN /\ CASE b = 224 -> second(160, 191)
                  [] b = 237 -> second(128, 159)
                  [] OTHER -> cont(1)
             /\ cont(2)
             /\ utf8_valid_from(bytes, i + 3)
        ELSE IF b >= 240 /\ b <= 244
        THEN /\ CASE b = 240 -> second(144, 191)
                  [] b = 244 -> second(128, 143)
                  [] OTHER -> cont(1)
             /\ cont(2) /\ cont(3)
             /\ utf8_valid_from(bytes, i + 4)
        ELSE FALSE

\* String::from_utf8(..).ok(): a String is kept as its UTF-8 bytes.
from_utf8(bytes) == IF utf8_valid_from(bytes, 1) THEN Some(bytes) ELSE None

\* &data[from..to]: panics when the range is not inside data.
slice(data, from, to) ==
    IF from > to \/ to > Len(data) THEN Panic ELSE Ok(SubSeq(data, from + 1, to))

\* parse_string_return; overflow_checks tells whether the build panics on
\* usize overflow (debug) or wraps (release).
parse_string_return(data, overflow_checks) ==
    IF Len(data) < 64 THEN Ok(None)
    ELSE LET offset == word_as_usize(SubSeq(data, 1, 32)) IN
         IF ~offset.ok THEN Panic
         ELSE IF offset.val >= Len(data) THEN Ok(None)
         ELSE LET length_word == slice(data, offset.val, offset.val + 32) IN
              IF ~length_word.ok THEN Panic
              ELSE LET length == word_as_usize(length_word.val) IN
                   IF ~length.ok THEN Panic
                   ELSE IF offset.val + 32 + length.val > UsizeMax /\ overflow_checks
                   THEN Panic
                   ELSE LET end == (offset.val + 32 + length.val) % (UsizeMax + 1) IN
                        IF end > Len(data) THEN Ok(None)
                        ELSE LET string_data == slice(data, offset.val + 32, end) IN
                             IF ~string_data.ok THEN Panic
                             ELSE Ok(from_utf8(string_data.val))

\* symbol() and name() from the provider's answer on.
string_return(response, overflow_checks) ==
    IF ~response.ok THEN Err("ProviderError")
    ELSE LET parsed == parse_string_return(response.val, overflow_checks) IN
         IF ~parsed.ok THEN Panic
         ELSE IF ~parsed.val.some THEN Err("AbiError")
         ELSE Ok(parsed.val.val)

\* decimals() from the provider's answer on: a 32-byte answer goes through
\* U256::as_u32, which panics above u32 (a non-zero byte above the low four),
\* and `as u8` keeps the low byte.
decimals_return(response) ==
    IF ~response.ok THEN Err("ProviderError")
    ELSE LET result == response.val IN
         IF result = <<>> THEN Err("AbiError")
         ELSE IF Len(result) = 32
         THEN IF \E k \in 1..28 : result[k] # 0 THEN Panic ELSE Ok(result[32])
         ELSE IF Len(result) = 1 THEN Ok(result[1])
         ELSE Err("AbiError")

\* The calls of symbol(), name() and decimals().
symbol_call(token) ==
    [method |-> "eth_call", to |-> token, from |-> None, data |-> <<149, 216, 155, 65>>]

name_call(token) ==
    [method |-> "eth_call", to |-> token, from |-> None, data |-> <<6, 253, 222, 3>>]

decimals_call(token) ==
    [method |-> "eth_call", to |-> token, from |-> None, data |-> <<49, 60, 229, 103>>]

HexChars == <<"0", "1", "2", "3", "4", "5", "6", "7", "8", "9",
              "a", "b", "c", "d", "e", "f">>

\* format!("{:?}", token): 0x and two hexadecimal digits for each byte.
RECURSIVE hex_digits(_)
hex_digits(bytes) ==
    IF bytes = <<>> THEN <<>>
    ELSE <<HexChars[(Head(bytes) \div 16) + 1], HexChars[(Head(bytes) % 16) + 1]>>
             \o hex_digits(Tail(bytes))

format_address(token) == <<"0", "x">> \o hex_digits(token)

\* "UNKNOWN" and "Unknown Token" as UTF-8 bytes.
UNKNOWN == <<85, 78, 75, 78, 79, 87, 78>>
UnknownToken == <<85, 110, 107, 110, 111, 119, 110, 32, 84, 111, 107, 101, 110>>

\* unwrap_or_else(|_| default) / unwrap_or(default)
unwrap_or(res, default) == IF res.ok THEN res.val ELSE default

\* token_info after the three queries were joined.
token_info_joined(token, symbol_res, name_res, decimals_res) ==
    Ok([symbol |-> unwrap_or(symbol_res, UNKNOWN),
        name |-> unwrap_or(name_res, UnknownToken),
        address |-> format_address(token),
        decimals |-> unwrap_or(decimals_res, 18)])

----------------------------------------------------------------------------
(* Reserve selection of the price lookup *)

\* The USDC address of get_token_price.
usdc_addr ==
    <<160, 184, 105, 145, 198, 33, 139, 54, 193, 209,
      157, 74, 46, 158, 176, 206, 54, 6, 235, 72>>

\* (token_reserve, weth_reserve) of the token/WETH pool.
token_pool_reserves(token_addr, weth_addr, reserves) ==
    IF AddressLess(token_addr, weth_addr) THEN <<reserves[1], reserves[2]>>
    ELSE <<reserves[2], reserves[1]>>

\* (weth_res, usdc_res) of the WETH/USDC pool.
usdc_pool_reserves(weth_addr, usdc_address, usdc_reserves) ==
    IF AddressLess(weth_addr, usdc_address)
    THEN <<usdc_reserves[1], usdc_reserves[2]>>
    ELSE <<usdc_reserves[2], usdc_reserves[1]>>

----------------------------------------------------------------------------
(* swap_tokens: the quote and the minimum output *)

\* quote_swap once the reserves of the path are fetched.
quote_swap_result(path, amount_in, reserves, pair_addresses) ==
    LET amounts == calculate_amounts_out(amount_in, reserves) IN
    IF ~amounts.ok THEN amounts
    ELSE LET amount_out == amounts.val[Len(amounts.val)]
             price_impact == calculate_price_impact(amount_in, reserves[1][1])
         IN  IF ~price_impact.ok THEN price_impact
             ELSE Ok(SwapQuote(path, amount_out, price_impact.val, pair_addresses))

\* quote.amount_out * U256::from(slippage_factor) / U256::from(10000)
minimum_output_of(amount_out, slippage_bps) ==
    LET product == u256_mul(amount_out, 10000 - slippage_bps) IN
    IF ~product.ok THEN Panic ELSE Ok(product.val \div 10000)

\* The SwapSimulationResult swap_tokens builds from the simulation.
swap_tokens_result(simulation, slippage_bps, decimals) ==
    LET quote == simulation.quote
        minimum_output == minimum_output_of(quote.amount_out, slippage_bps)
    IN  IF ~minimum_output.ok THEN Panic
        ELSE LET estimated_output_formatted == format_units(quote.amount_out, decimals)
                 minimum_output_formatted == format_units(minimum_output.val, decimals)
             IN  IF ~estimated_output_formatted.ok \/ ~minimum_output_formatted.ok
                 THEN Panic
                 ELSE Ok([estimated_output |-> estimated_output_formatted.val,
                          minimum_output |-> minimum_output_formatted.val,
                          price_impact |-> quote.price_impact,
                          path |-> quote.path,
                          pools |-> quote.pair_addresses,
                          simulation_success |-> simulation.simulation_success,
                          gas_estimate |-> simulation.gas_estimate,
                          revert_reason |-> simulation.revert_reason])

----------------------------------------------------------------------------
(* Token registry: a String is the sequence of its UTF-8 bytes *)

\* str::to_uppercase / str::to_lowercase on ASCII text.
to_uppercase(text) ==
    [i \in 1..Len(text) |-> IF text[i] \in 97..122 THEN text[i] - 32 ELSE text[i]]

to_lowercase(text) ==
    [i \in 1..Len(text) |-> IF text[i] \in 65..90 THEN text[i] + 32 ELSE text[i]]

is_ascii_hexdigit(c) == c \in (48..57) \cup (65..70) \cup (97..102)

\* The value of a hexadecimal digit.
hex_value(c) ==
    IF c \in 48..57 THEN c - 48 ELSE IF c \in 65..70 THEN c - 55 ELSE c - 87

\* str::parse::<Address> of "0x" and 40 hexadecimal digits.
parse_address(text) ==
    [i \in 1..20 |-> hex_value(text[2 * i + 1]) * 16 + hex_value(text[2 * i + 2])]

\* The UTF-8 bytes of a text of the characters 0-9, a-f and x.
utf8(text) ==
    [i \in 1..Len(text) |->
        IF text[i] = "x" THEN 120
        ELSE LET d == CHOOSE k \in 1..16 : HexChars[k] = text[i]
             IN  IF d <= 10 THEN 47 + d ELSE 86 + d]

TokenInfo(symbol, name, address, decimals) ==
    [symbol |-> symbol, name |-> name, address |-> address, decimals |-> decimals]

\* default_mainnet_tokens(): (symbol, TokenInfo) of WETH, ETH, USDC, USDT,
\* DAI, WBTC and UNI, in this order.
default_mainnet_tokens ==
    <<
       \* "WETH", "Wrapped Ether", "0xC02aaA39b223FE8D0A0e5C4F27eAD9083C756Cc2"
       << <<87, 69, 84, 72>>,
          TokenInfo(<<87, 69, 84, 72>>,
                    <<87, 114, 97, 112, 112, 101, 100, 32, 69, 116, 104, 101, 114>>,
                    <<48, 120, 67, 48, 50, 97, 97, 65, 51, 57, 98, 50, 50, 51,
                      70, 69, 56, 68, 48, 65, 48, 101, 53, 67, 52, 70, 50, 55,
                      101, 65, 68, 57, 48, 56, 51, 67, 55, 53, 54, 67, 99, 50>>,
                    18) >>,
       \* "ETH", "Ether", "0xC02aaA39b223FE8D0A0e5C4F27eAD9083C756Cc2"
       << <<69, 84, 72>>,
          TokenInfo(<<69, 84, 72>>,
                    <<69, 116, 104, 101, 114>>,
                    <<48, 120, 67, 48, 50, 97, 97, 65, 51, 57, 98, 50, 50, 51,
                      70, 69, 56, 68, 48, 65, 48, 101, 53, 67, 52, 70, 50, 55,
                      101, 65, 68, 57, 48, 56, 51, 67, 55, 53, 54, 67, 99, 50>>,
                    18) >>,
       \* "USDC", "USD Coin", "0xA0b86991c6218b36c1d19D4a2e9Eb0cE3606eB48"
       << <<85, 83, 68, 67>>,
          TokenInfo(<<85, 83, 68, 67>>,
                    <<85, 83, 68, 32, 67, 111, 105, 110>>,
                    <<48, 120, 65, 48, 98, 56, 54, 57, 57, 49, 99, 54, 50, 49,
                      56, 98, 51, 54, 99, 49, 100, 49, 57, 68, 52, 97, 50, 101,
                      57, 69, 98, 48, 99, 69, 51, 54, 48, 54, 101, 66, 52, 56>>,
                    6) >>,
       \* "USDT", "Tether USD", "0xdAC17F958D2ee523a2206206994597C13D831ec7"
       << <<85, 83, 68, 84>>,
          TokenInfo(<<85, 83, 68, 84>>,
                    <<84, 101, 116, 104, 101, 114, 32, 85, 83, 68>>,
                    <<48, 120, 100, 65, 67, 49, 55, 70, 57, 53, 56, 68, 50, 101,
                      101, 53, 50, 51, 97, 50, 50, 48, 54, 50, 48, 54, 57, 57,
                      52, 53, 57, 55, 67, 49, 51, 68, 56, 51, 49, 101, 99, 55>>,
                    6) >>,
       \* "DAI", "Dai Stablecoin", "0x6B175474E89094C44Da98b954EedeAC495271d0F"
       << <<68, 65, 73>>,
          TokenInfo(<<68, 65, 73>>,
                    <<68, 97, 105, 32, 83, 116, 97, 98, 108, 101, 99, 111, 105, 110>>,
                    <<48, 120, 54, 66, 49, 55, 53, 52, 55, 52, 69, 56, 57, 48,
                      57, 52, 67, 52, 52, 68, 97, 57, 56, 98, 57, 53, 52, 69,
                      101, 100, 101, 65, 67, 52, 57, 53, 50, 55, 49, 100, 48, 70>>,
                    18) >>,
       \* "WBTC", "Wrapped BTC", "0x2260FAC5E5542a773Aa44fBCfeDf7C193bc2C599"
       << <<87, 66, 84, 67>>,
          TokenInfo(<<87, 66, 84, 67>>,
                    <<87, 114, 97, 112, 112, 101, 100, 32, 66, 84, 67>>,
                    <<48, 120, 50, 50, 54, 48, 70, 65, 67, 53, 69, 53, 53, 52,
                      50, 97, 55, 55, 51, 65, 97, 52, 52, 102, 66, 67, 102, 101,
                      68, 102, 55, 67, 49, 57, 51, 98, 99, 50, 67, 53, 57, 57>>,
                    8) >>,
       \* "UNI", "Uniswap", "0x1f9840a85d5aF5bf1D1762F925BDADdC4201F984"
       << <<85, 78, 73>>,
          TokenInfo(<<85, 78, 73>>,
                    <<85, 110, 105, 115, 119, 97, 112>>,
                    <<48, 120, 49, 102, 57, 56, 52, 48, 97, 56, 53, 100, 53, 97,
                      70, 53, 98, 102, 49, 68, 49, 55, 54, 50, 70, 57, 50, 53,
                      66, 68, 65, 68, 100, 67, 52, 50, 48, 49, 70, 57, 56, 52>>,
                    18) >>
    >>

\* HashMap::insert
insert(map, key, value) ==
    [k \in (DOMAIN map) \cup {key} |-> IF k = key THEN value ELSE map[k]]

\* TokenRegistry::new: the default tokens under their upper-case symbols.
RECURSIVE load_tokens(_, _)
load_tokens(map, entries) ==
    IF entries = <<>> THEN map
    ELSE load_tokens(insert(map, to_uppercase(Head(entries)[1]), Head(entries)[2]),
                     Tail(entries))

new_registry == load_tokens(<<>>, default_mainnet_tokens)

\* The placeholder resolve returns for an address the registry does not hold.
unknown_placeholder(symbol_or_address) ==
    TokenInfo(UNKNOWN, UnknownToken, symbol_or_address, 18)

\* TokenRegistry::resolve: the values it can return. A lookup by address
\* returns the first matching value in the iteration order of the HashMap,
\* which is any of the matching values.
resolve(map, symbol_or_address) ==
    IF /\ Len(symbol_or_address) = 42
       /\ SubSeq(symbol_or_address, 1, 2) = <<48, 120>>
       /\ \A i \in 3..42 : is_ascii_hexdigit(symbol_or_address[i])
    THEN LET found == {k \in DOMAIN map :
                          to_lowercase(map[k].address)
                              = to_lowercase(symbol_or_address)}
         IN  IF found = {} THEN {Some(unknown_placeholder(symbol_or_address))}
             ELSE {Some(map[k]) : k \in found}
    ELSE IF to_uppercase(symbol_or_address) \in DOMAIN map
    THEN {Some(map[to_uppercase(symbol_or_address)])}
    ELSE {None}

\* TokenRegistry::register
register(map, symbol, info) ==
    insert(insert(map, to_uppercase(symbol), info), to_lowercase(info.address), info)

\* token_info as the tools receive it: the TokenInfo with its address text.
queried_token_info(token_addr, symbol_res, name_res, decimals_res) ==
    LET real_info == token_info_joined(token_addr, symbol_res, name_res,
                                       decimals_res).val
    IN  TokenInfo(real_info.symbol, real_info.name, utf8(real_info.address),
                  real_info.decimals)

\* The token lookup of a tool for one resolved value: an unknown token is
\* queried on chain and registered under the symbol the chain returned.
lookup_resolved(map, resolved, available, symbol_res, name_res, decimals_res) ==
    IF ~resolved.some THEN [tokens |-> map, token_info |-> Err("invalid_params")]
    ELSE LET token_info == resolved.val
             token_addr == parse_address(token_info.address)
         IN  IF token_info.symbol = UNKNOWN /\ available
             THEN LET real_info == queried_token_info(token_addr, symbol_res,
                                                      name_res, decimals_res)
                  IN  [tokens |-> register(map, real_info.symbol, real_info),
                       token_info |-> Ok(real_info)]
             ELSE [tokens |-> map, token_info |-> Ok(token_info)]

\* The lookups a tool can make of the text it was given.
lookup_token(map, text, available, symbol_res, name_res, decimals_res) ==
    {lookup_resolved(map, resolved, available, symbol_res, name_res, decimals_res) :
        resolved \in resolve(map, text)}

----------------------------------------------------------------------------
(* Idle values of the two groups of variables *)

FormulaIdle ==
    /\ args = <<>>
    /\ ret = NoRet
    /\ prev = NoRet
    /\ fpc = "idle"

RequestIdle ==
    /\ tokens = <<>>
    /\ provider = FALSE
    /\ request = <<>>
    /\ pc = "idle"
    /\ locals = <<>>
    /\ calls = <<>>
    /\ outcome = NoRet

----------------------------------------------------------------------------
(* calculate_amount_out applied to bounded inputs, then once more to another
   amount against the same reserves *)

AmountIns ==
    (0..MaxAmount) \cup {100, 1000, U256Max \div 997, U256Max \div 997 + 1, U256Max}

ReservesIn ==
    (0..MaxReserve)
        \cup {100, 1000, U256Max \div 1000, U256Max \div 1000 + 1, U256Max}

ReservesOut == (0..MaxReserve) \cup {50, 100, 1000}

InitAmountOut ==
    /\ args \in [amount_in : AmountIns, reserve_in : ReservesIn,
                  reserve_out : ReservesOut]
    /\ ret = NoRet
    /\ prev = NoRet
    /\ fpc = "ready"
    /\ RequestIdle

CallAmountOut ==
    /\ fpc = "ready"
    /\ ret' = calculate_amount_out(args.amount_in, args.reserve_in, args.reserve_out)
    /\ fpc' = "returned"
    /\ UNCHANGED <<args, prev>>
    /\ UNCHANGED request_vars

RecallAmountOut ==
    /\ fpc = "returned"
    /\ prev = NoRet
    /\ \E b \in AmountIns : args' = [args EXCEPT !.amount_in = b]
    /\ prev' = [amount_in |-> args.amount_in, ret |-> ret]
    /\ ret' = NoRet
    /\ fpc' = "ready"
    /\ UNCHANGED request_vars

NextAmountOut == CallAmountOut \/ RecallAmountOut

SpecAmountOut == InitAmountOut /\ [][NextAmountOut]_vars

----------------------------------------------------------------------------
(* Claims about calculate_amount_out, under SpecAmountOut *)

AmountOutReturned == fpc = "returned" /\ "reserve_out" \in DOMAIN args

\* The four intermediate values of the formula all fit the integer width.
FitsWidth(amount_in, reserve_in, reserve_out) ==
    /\ amount_in * 997 <= U256Max
    /\ amount_in * 997 * reserve_out <= U256Max
    /\ reserve_in * 1000 <= U256Max
    /\ reserve_in * 1000 + amount_in * 997 <= U256Max

\* q is the quotient of num by den, truncated.
IsFloor(q, num, den) == q * den <= num /\ num < (q + 1) * den

\* C1: for amount_in > 0 and non-zero reserves with no intermediate value
\* above the integer maximum, calculate_amount_out returns exactly
\* floor((amount_in*997*reserve_out) / (reserve_in*1000 + amount_in*997)).
C1_AmountOutExact ==
    (/\ AmountOutReturned
     /\ args.amount_in > 0 /\ args.reserve_in # 0 /\ args.reserve_out # 0
     /\ FitsWidth(args.amount_in, args.reserve_in, args.reserve_out))
    => /\ ret.ok
       /\ IsFloor(ret.val, args.amount_in * 997 * args.reserve_out,
                  args.reserve_in * 1000 + args.amount_in * 997)

\* 10 in against reserves 100/100 gives 9 (9.066 truncated).
C1_Witness ==
    /\ AmountOutReturned
    /\ args = [amount_in |-> 10, reserve_in |-> 100, reserve_out |-> 100]
    /\ ret = Ok(9)

\* The outcome the claim assigns to an input: an error name or "value".
ExpectedOutcome(amount_in, reserve_in, reserve_out) ==
    IF amount_in = 0 THEN "InvalidAmount"
    ELSE IF reserve_in = 0 \/ reserve_out = 0 THEN "InsufficientLiquidity"
    ELSE IF ~FitsWidth(amount_in, reserve_in, reserve_out) THEN "InvalidAmount"
    ELSE "value"

\* C2: calculate_amount_out returns InvalidAmount for amount_in = 0 (whatever
\* the reserves), otherwise InsufficientLiquidity for a zero reserve,
\* otherwise InvalidAmount when an intermediate product or sum exceeds the
\* integer maximum, otherwise a value; a returned value is never a wrapped one.
C2_AmountOutClassified ==
    AmountOutReturned =>
        LET expected ==
                ExpectedOutcome(args.amount_in, args.reserve_in, args.reserve_out)
        IN  IF expected = "value"
            THEN ret.ok /\ ret.val \in 0..U256Max
            ELSE ~ret.ok /\ ret.err = expected

\* The denominator sum overflows although neither product does.
C2_Witness ==
    /\ AmountOutReturned
    /\ args = [amount_in |-> 1, reserve_in |-> U256Max \div 1000, reserve_out |-> 1]
    /\ args.reserve_in * 1000 <= U256Max
    /\ args.reserve_in * 1000 + 997 > U256Max
    /\ ret = Err("InvalidAmount")

\* Two successful calls against the same reserves.
TwoQuotes ==
    /\ AmountOutReturned
    /\ prev # NoRet
    /\ prev.ret.ok
    /\ ret.ok

\* C5: for fixed non-zero reserves and 0 < a <= b on which
\* calculate_amount_out succeeds, amount_out(a) <= amount_out(b).
C5_AmountOutMonotone ==
    (TwoQuotes /\ prev.amount_in <= args.amount_in) => prev.ret.val <= ret.val

C5_Witness ==
    /\ TwoQuotes
    /\ prev.amount_in < args.amount_in
    /\ prev.ret.val < ret.val

NoFeeOutput(amount_in, reserve_in, reserve_out) ==
    (amount_in * reserve_out) \div (reserve_in + amount_in)

\* C6 as stated: calculate_amount_out is strictly increasing in amount_in and
\* strictly below the no-fee constant-product output.
C6_StrictlyIncreasingBelowNoFee ==
    /\ (TwoQuotes /\ prev.amount_in < args.amount_in) => prev.ret.val < ret.val
    /\ (AmountOutReturned /\ ret.ok) =>
           ret.val < NoFeeOutput(args.amount_in, args.reserve_in, args.reserve_out)

\* C6 amended: for fixed reserves a < b implies amount_out(a) <= amount_out(b),
\* and amount_out never exceeds the no-fee constant-product output
\* floor(amount_in*reserve_out / (reserve_in + amount_in)).
C6_NonDecreasingAtMostNoFee ==
    /\ (TwoQuotes /\ prev.amount_in < args.amount_in) => prev.ret.val <= ret.val
    /\ (AmountOutReturned /\ ret.ok) =>
           ret.val <= NoFeeOutput(args.amount_in, args.reserve_in, args.reserve_out)

\* A larger input with the same output, equal to the no-fee output.
C6_Witness ==
    /\ TwoQuotes
    /\ prev.amount_in < args.amount_in
    /\ prev.ret.val = ret.val
    /\ ret.val = NoFeeOutput(args.amount_in, args.reserve_in, args.reserve_out)

----------------------------------------------------------------------------
(* calculate_amounts_out applied to bounded inputs *)

ChainAmounts == {0, 1, 10, 100, 1000, U256Max}

ChainReserves == {0, 50, 100, 200, 1000}

RECURSIVE SeqsUpTo(_, _)
SeqsUpTo(S, n) ==
    IF n = 0 THEN {<<>>}
    ELSE LET shorter == SeqsUpTo(S, n - 1)
         IN  shorter \cup {Append(q, x) : q \in shorter, x \in S}

InitAmountsOut ==
    /\ args \in [amount_in : ChainAmounts,
                 reserves : SeqsUpTo(ChainReserves \X ChainReserves, MaxHops)]
    /\ ret = NoRet
    /\ prev = NoRet
    /\ fpc = "ready"
    /\ RequestIdle

CallAmountsOut ==
    /\ fpc = "ready"
    /\ ret' = calculate_amounts_out(args.amount_in, args.reserves)
    /\ fpc' = "returned"
    /\ UNCHANGED <<args, prev>>
    /\ UNCHANGED request_vars

NextAmountsOut == CallAmountsOut

SpecAmountsOut == InitAmountsOut /\ [][NextAmountsOut]_vars

\* The amount after the first i hops, or the error of the first failing hop.
RECURSIVE AmountAfter(_, _, _)
AmountAfter(amount_in, reserves, i) ==
    IF i = 0 THEN Ok(amount_in)
    ELSE LET before == AmountAfter(amount_in, reserves, i - 1)
         IN  IF ~before.ok THEN before
             ELSE calculate_amount_out(before.val, reserves[i][1], reserves[i][2])

\* C3: calculate_amounts_out returns [amount_in, out_1, ..., out_n] with
\* out_i = calculate_amount_out(out_(i-1), reserve_in_i, reserve_out_i) in hop
\* order; if a hop fails the call fails with that hop's error and returns no
\* partial sequence.
C3_AmountsOutChain ==
    (fpc = "returned" /\ "reserves" \in DOMAIN args) =>
        LET n == Len(args.reserves)
            after(i) == AmountAfter(args.amount_in, args.reserves, i)
        IN  IF ret.ok
            THEN /\ Len(ret.val) = n + 1
                 /\ ret.val[1] = args.amount_in
                 /\ \A i \in 1..n :
                        calculate_amount_out(ret.val[i], args.reserves[i][1],
                                             args.reserves[i][2]) = Ok(ret.val[i + 1])
            ELSE /\ DOMAIN ret = {"ok", "err"}
                 /\ \E k \in 1..n :
                        /\ \A j \in 0..(k - 1) : after(j).ok
                        /\ ~after(k).ok
                        /\ ret = after(k)

\* 10 through [(100,50),(50,200)] gives [10, 4, 14].
C3_Witness ==
    /\ fpc = "returned"
    /\ args = [amount_in |-> 10, reserves |-> << <<100, 50>>, <<50, 200>> >>]
    /\ ret = Ok(<<10, 4, 14>>)

----------------------------------------------------------------------------
(* calculate_price_impact applied to bounded inputs *)

ImpactAmounts ==
    (0..MaxAmount)
        \cup {100, 1000, U256Max \div 10000, U256Max \div 10000 + 1, U256Max}

ImpactReserves == (0..MaxReserve) \cup {100, 1000, 3333, 10000, 10001, U256Max}

InitPriceImpact ==
    /\ args \in [amount_in : ImpactAmounts, reserve_in : ImpactReserves]
    /\ ret = NoRet
    /\ prev = NoRet
    /\ fpc = "ready"
    /\ RequestIdle

CallPriceImpact ==
    /\ fpc = "ready"
    /\ ret' = calculate_price_impact(args.amount_in, args.reserve_in)
    /\ fpc' = "returned"
    /\ UNCHANGED <<args, prev>>
    /\ UNCHANGED request_vars

NextPriceImpact == CallPriceImpact

SpecPriceImpact == InitPriceImpact /\ [][NextPriceImpact]_vars

PriceImpactValue == fpc = "returned" /\ "reserve_in" \in DOMAIN args /\ ret.ok

\* x is n to within the rounding of the f64 conversion.
WithinRounding(x, n) ==
    LET d == IF x >= n THEN x - n ELSE n - x
    IN  d * 2^F64MantissaBits <= n

\* The returned percentage is floor(amount_in*10000 / reserve_in) / 100 to
\* within rounding.
ImpactIsScaledRatio ==
    /\ ret.val.den = 100
    /\ \E n \in 0..U128Max :
           /\ IsFloor(n, args.amount_in * 10000, args.reserve_in)
           /\ WithinRounding(ret.val.num, n)

\* C7 as stated: the result equals floor(amount_in*10000 / reserve_in) / 100
\* to within rounding and is 0 only when amount_in is 0.
C7_ImpactZeroOnlyForZeroAmount ==
    PriceImpactValue =>
        /\ ImpactIsScaledRatio
        /\ ret.val.num = 0 => args.amount_in = 0

\* C7 amended: a returned percentage equals floor(amount_in*10000 /
\* reserve_in) / 100 to within rounding, and it is 0 exactly when
\* amount_in*10000 < reserve_in, which includes non-zero amounts.
C7_ImpactZeroBelowBasisPoint ==
    PriceImpactValue =>
        /\ ImpactIsScaledRatio
        /\ ret.val.num = 0 <=> args.amount_in * 10000 < args.reserve_in

\* A non-zero amount with a zero price impact.
C7_Witness ==
    /\ PriceImpactValue
    /\ args.amount_in = 1
    /\ args.reserve_in = 10001
    /\ ret = Ok(Ratio(0, 100))

----------------------------------------------------------------------------
(* One quote_swap or simulate_swap request against a nondeterministic chain *)

Tokens == {weth, DAI, USDT}

RequestAmounts == {0, 10}

MinimumOutputs == {0, 3}

Requests ==
    [op : {"quote_swap"}, token_in : Tokens, token_out : Tokens,
     amount_in : RequestAmounts, amount_out_min : {0}, from_address : {None}]
    \cup
    [op : {"simulate_swap"}, token_in : Tokens, token_out : Tokens,
     amount_in : RequestAmounts, amount_out_min : MinimumOutputs,
     from_address : {None, Some(simulation_address)}]

\* Error texts of the provider, as sequences of fragments.
ErrorMessages ==
    { <<"execution reverted">>,
      <<"insufficient">>,
      <<"TRANSFER_FROM_FAILED">>,
      <<"EXPIRED">>,
      <<"connection refused">>,
      <<"execution reverted", "insufficient">>,
      <<"insufficient", "EXPIRED">> }

TransportFailure == Err(<<"connection refused">>)

\* Answers of the factory to getPair.
PairResponses ==
    { TransportFailure,
      Ok(<<>>),
      Ok(Zeros(32)),
      Ok(address_word(PoolA)),
      Ok(address_word(PoolB)),
      Ok([i \in 1..12 |-> 255] \o ZeroAddress),
      Ok([i \in 1..12 |-> 255] \o PoolA),
      Ok(address_word(PoolA) \o Zeros(32)),
      Ok(SubSeq(address_word(PoolA), 2, 32)) }

\* Answers of a pool to getReserves.
ReservesResponses ==
    { TransportFailure,
      Ok(Zeros(63)),
      Ok(to_big_endian(100) \o to_big_endian(20)),
      Ok(to_big_endian(20) \o to_big_endian(100) \o to_big_endian(7)),
      Ok(to_big_endian(0) \o to_big_endian(100)),
      Ok(to_big_endian(100) \o to_big_endian(0) \o to_big_endian(7)) }

\* Answers of the router call: return data, or an error text.
CallResponses == {Ok(<<>>)} \cup {Err(m) : m \in ErrorMessages}

\* Answers of the gas estimation.
GasResponses == {Ok(150000), TransportFailure}

NoLocals ==
    [path |-> <<>>, i |-> 0, reserves |-> <<>>, pair_addresses |-> <<>>,
     pair_response |-> NoRet, pair |-> NoRet, reserves_response |-> NoRet,
     pool_reserves |-> NoRet,
     quote |-> NoRet, tx |-> NoRet, call_response |-> NoRet,
     gas_response |-> NoRet]

Init ==
    /\ FormulaIdle
    /\ tokens = <<>>
    /\ provider \in BOOLEAN
    /\ request \in Requests
    /\ pc = "start"
    /\ locals = NoLocals
    /\ calls = <<>>
    /\ outcome = NoRet

\* The request returns result (a value, an error or a panic).
Return(result) ==
    /\ pc' = "done"
    /\ outcome' = result

\* quote_swap up to its first await: the path, then get_reserves_for_path
\* entering get_pair for the first hop.
EnterQuoteSwap ==
    LET path == quote_swap_path(request.token_in, request.token_out) IN
    IF Len(path) < 2
    THEN /\ Return(Err("AbiError"))
         /\ locals' = [locals EXCEPT !.path = path]
         /\ UNCHANGED calls
    ELSE IF ~provider
    THEN /\ Return(Err("ProviderUnavailable"))
         /\ locals' = [locals EXCEPT !.path = path, !.i = 1]
         /\ UNCHANGED calls
    ELSE /\ locals' = [locals EXCEPT !.path = path, !.i = 1]
         /\ calls' = Append(calls, get_pair_call(path[1], path[2]))
         /\ pc' = "get_pair"
         /\ UNCHANGED outcome

QuoteSwapStart ==
    /\ pc = "start"
    /\ request.op = "quote_swap"
    /\ EnterQuoteSwap
    /\ UNCHANGED <<provider, request, tokens>>
    /\ UNCHANGED formula_vars

SimulateSwapStart ==
    /\ pc = "start"
    /\ request.op = "simulate_swap"
    /\ IF ~provider
       THEN /\ Return(Err("ProviderUnavailable"))
            /\ UNCHANGED <<locals, calls>>
       ELSE EnterQuoteSwap
    /\ UNCHANGED <<provider, request, tokens>>
    /\ UNCHANGED formula_vars

\* The factory answers getPair: get_pair returns, and on success
\* get_reserves_for_path pushes the pair and calls get_reserves.
GetPairReturn ==
    /\ pc = "get_pair"
    /\ \E response \in PairResponses :
          LET pair == get_pair_return(response)
              received == [locals EXCEPT !.pair_response = response, !.pair = pair]
          IN  IF ~pair.ok
              THEN /\ Return(pair)
                   /\ locals' = received
                   /\ UNCHANGED calls
              ELSE /\ locals' = [received EXCEPT
                                    !.pair_addresses = Append(@, pair.val)]
                   /\ calls' = Append(calls, get_reserves_call(pair.val))
                   /\ pc' = "get_reserves"
                   /\ UNCHANGED outcome
    /\ UNCHANGED <<provider, request, tokens>>
    /\ UNCHANGED formula_vars

\* The rest of quote_swap once every hop's reserves are in, and for
\* simulate_swap the calldata, the from_address check and the router call.
FinishQuoteSwap(fetched) ==
    LET reserves == fetched.reserves
        amounts == calculate_amounts_out(request.amount_in, reserves)
    IN  IF ~amounts.ok
        THEN /\ Return(amounts)
             /\ locals' = fetched
             /\ UNCHANGED calls
        ELSE
        LET amount_out == amounts.val[Len(amounts.val)]
            reserve_in == reserves[1][1]
            price_impact == calculate_price_impact(request.amount_in, reserve_in)
        IN  IF ~price_impact.ok
            THEN /\ Return(price_impact)
                 /\ locals' = fetched
                 /\ UNCHANGED calls
            ELSE
            LET quote == SwapQuote(fetched.path, amount_out, price_impact.val,
                                   fetched.pair_addresses)
                quoted == [fetched EXCEPT !.quote = Ok(quote)]
            IN  IF request.op = "quote_swap"
                THEN /\ Return(Ok(quote))
                     /\ locals' = quoted
                     /\ UNCHANGED calls
                ELSE
                LET path == simulate_swap_path(request.token_in, request.token_out)
                    recipient == to_addr_of(request.from_address)
                IN  IF ~recipient.ok
                    THEN /\ Return(recipient)
                         /\ locals' = quoted
                         /\ UNCHANGED calls
                    ELSE
                    LET to_addr == recipient.val
                        tx == [method |-> "eth_call", to |-> router_address,
                               from |-> Some(to_addr),
                               data |-> swap_calldata(request.amount_in,
                                                      request.amount_out_min,
                                                      to_addr, path)]
                    IN  /\ locals' = [quoted EXCEPT !.tx = tx]
                        /\ calls' = Append(calls, tx)
                        /\ pc' = "router_call"
                        /\ UNCHANGED outcome

\* A pool answers getReserves: get_reserves returns, the hop's reserves are
\* ordered and pushed, and the loop goes to the next hop or ends.
GetReservesReturn ==
    /\ pc = "get_reserves"
    /\ \E response \in ReservesResponses :
          LET got == get_reserves_return(response)
              received == [locals EXCEPT !.reserves_response = response,
                                         !.pool_reserves = got]
          IN  IF ~got.ok
              THEN /\ Return(got)
                   /\ locals' = received
                   /\ UNCHANGED calls
              ELSE
              LET token_a == locals.path[locals.i]
                  token_b == locals.path[locals.i + 1]
                  pushed == [received EXCEPT
                                !.reserves =
                                    Append(@, hop_reserves(token_a, token_b,
                                                           got.val[1], got.val[2]))]
              IN  IF locals.i + 1 < Len(locals.path)
                  THEN /\ locals' = [pushed EXCEPT !.i = @ + 1]
                       /\ calls' = Append(calls,
                                          get_pair_call(locals.path[locals.i + 1],
                                                        locals.path[locals.i + 2]))
                       /\ pc' = "get_pair"
                       /\ UNCHANGED outcome
                  ELSE FinishQuoteSwap(pushed)
    /\ UNCHANGED <<provider, request, tokens>>
    /\ UNCHANGED formula_vars

\* The router call answers: on success gas estimation is called with the
\* same transaction, on failure the simulation is returned as failed.
RouterCallReturn ==
    /\ pc = "router_call"
    /\ \E response \in CallResponses :
          LET received == [locals EXCEPT !.call_response = response] IN
          IF response.ok
          THEN /\ locals' = received
               /\ calls' = Append(calls, [locals.tx EXCEPT !.method = "eth_estimateGas"])
               /\ pc' = "estimate_gas"
               /\ UNCHANGED outcome
          ELSE /\ Return(Ok(SwapSimulation(locals.quote.val, None, FALSE,
                                           extract_revert_reason(response.err))))
               /\ locals' = received
               /\ UNCHANGED calls
    /\ UNCHANGED <<provider, request, tokens>>
    /\ UNCHANGED formula_vars

\* The gas estimation answers: its failure only leaves gas_estimate empty.
EstimateGasReturn ==
    /\ pc = "estimate_gas"
    /\ \E response \in GasResponses :
          LET gas == IF response.ok THEN Some(response.val) ELSE None IN
          /\ Return(Ok(SwapSimulation(locals.quote.val, gas, TRUE, None)))
          /\ locals' = [locals EXCEPT !.gas_response = response]
    /\ UNCHANGED calls
    /\ UNCHANGED <<provider, request, tokens>>
    /\ UNCHANGED formula_vars

Next ==
    \/ QuoteSwapStart
    \/ SimulateSwapStart
    \/ GetPairReturn
    \/ GetReservesReturn
    \/ RouterCallReturn
    \/ EstimateGasReturn

Spec == Init /\ [][Next]_vars

----------------------------------------------------------------------------
(* Claims about the request, under Spec *)

SimulateDone == pc = "done" /\ request.op = "simulate_swap"

\* The calls of the request by target, in dispatch order.
PairCalls == SelectSeq(calls, LAMBDA c : c.to = factory_address)

ReservesCalls == SelectSeq(calls, LAMBDA c : c.data = <<9, 2, 241, 172>>)

RouterCalls == SelectSeq(calls, LAMBDA c : c.to = router_address)

\* The address array of a swapExactTokensForTokens payload: the count word
\* after the five head words, then one word per element.
DecodedPath(data) ==
    LET count == from_big_endian(SubSeq(data, 4 + 160 + 1, 4 + 192))
    IN  [k \in 1..count |->
            SubSeq(data, 4 + 192 + 32 * (k - 1) + 13, 4 + 192 + 32 * k)]

\* p is the direct hop when either token is weth, else the route through weth.
IsRouteOf(p, token_in, token_out) ==
    /\ p[1] = token_in
    /\ p[Len(p)] = token_out
    /\ IF token_in = weth \/ token_out = weth
       THEN Len(p) = 2
       ELSE Len(p) = 3 /\ p[2] = weth

\* C4: the path is [token_in, token_out] when either token is WETH and
\* [token_in, WETH, token_out] otherwise, and the path of the returned
\* SwapQuote, the hops whose pairs and reserves were fetched (one pair address
\* per hop, in hop order) and the path encoded in the router call of the same
\* request are this same path.
C4_OnePathPerRequest ==
    locals.quote.ok =>
        LET quote == locals.quote.val
            hops == Len(quote.path) - 1
        IN  /\ IsRouteOf(quote.path, request.token_in, request.token_out)
            /\ Len(quote.pair_addresses) = hops
            /\ Len(PairCalls) = hops
            /\ Len(ReservesCalls) = hops
            /\ \A k \in 1..hops :
                   /\ PairCalls[k].data =
                          <<230, 164, 57, 5>> \o address_word(quote.path[k])
                              \o address_word(quote.path[k + 1])
                   /\ ReservesCalls[k].to = quote.pair_addresses[k]
            /\ \A k \in 1..Len(RouterCalls) :
                   DecodedPath(RouterCalls[k].data) = quote.path
            /\ (pc = "done" /\ outcome.ok) =>
                   quote = IF request.op = "quote_swap" THEN outcome.val
                           ELSE outcome.val.quote

\* A simulation through weth whose router call carries the three addresses.
C4_Witness ==
    /\ SimulateDone
    /\ outcome.ok
    /\ outcome.val.quote.path = <<DAI, weth, USDT>>
    /\ Len(RouterCalls) = 2
    /\ DecodedPath(RouterCalls[1].data) = <<DAI, weth, USDT>>

\* C8: a returned SwapSimulation either has simulation_success = true, no
\* revert_reason and the gas estimate exactly when the gas estimation
\* succeeded, or has simulation_success = false, no gas_estimate and a
\* revert_reason.
C8_SimulationShapes ==
    (SimulateDone /\ outcome.ok) =>
        LET sim == outcome.val IN
        \/ /\ sim.simulation_success
           /\ locals.call_response.ok
           /\ ~sim.revert_reason.some
           /\ locals.gas_response # NoRet
           /\ sim.gas_estimate =
                  IF locals.gas_response.ok THEN Some(locals.gas_response.val)
                  ELSE None
        \/ /\ ~sim.simulation_success
           /\ ~locals.call_response.ok
           /\ ~sim.gas_estimate.some
           /\ sim.revert_reason.some
           /\ locals.gas_response = NoRet

\* A successful simulation whose gas estimation failed.
C8_Witness ==
    /\ SimulateDone
    /\ outcome.ok
    /\ outcome.val.simulation_success
    /\ locals.gas_response = TransportFailure
    /\ outcome.val.gas_estimate = None

MissingAddress == request.op = "simulate_swap" /\ ~request.from_address.some

\* C9 as stated: simulate_swap without a from_address always fails with the
\* missing-simulation-address error, and no router call and no gas estimation
\* is dispatched.
C9_MissingAddressAlwaysReported ==
    (MissingAddress /\ pc = "done") =>
        /\ outcome = MissingSimulationAddress
        /\ RouterCalls = <<>>

\* C9 amended: simulate_swap without a from_address never returns a
\* SwapSimulation and dispatches no router call and no gas estimation; it ends
\* with the missing-simulation-address error exactly when the provider is
\* available and the quote succeeded, and with the earlier failure otherwise.
C9_MissingAddressNeverSimulated ==
    MissingAddress =>
        /\ RouterCalls = <<>>
        /\ pc = "done" =>
               /\ ~outcome.ok
               /\ outcome = MissingSimulationAddress <=> (provider /\ locals.quote.ok)

\* The error is reported after both hops were queried.
C9_Witness ==
    /\ MissingAddress
    /\ pc = "done"
    /\ outcome = MissingSimulationAddress
    /\ Len(PairCalls) = 2
    /\ Len(ReservesCalls) = 2

NonZeroAddress(addr) == Len(addr) = 20 /\ \E i \in 1..20 : addr[i] # 0

\* C10: get_pair never returns the all-zero address: a 32-byte answer whose
\* low 20 bytes are all zero gives PairNotFound, an answer that is not 32
\* bytes long gives the malformed-return error, and otherwise the low 20
\* bytes are returned as the pool address.
C10_GetPairDecoding ==
    locals.pair # NoRet =>
        LET response == locals.pair_response
            pair == locals.pair
        IN  /\ (response.ok /\ Len(response.val) # 32) => pair = Err("AbiError")
            /\ (response.ok /\ Len(response.val) = 32) =>
                   IF \A i \in 13..32 : response.val[i] = 0
                   THEN pair = Err("PairNotFound")
                   ELSE /\ pair.ok
                        /\ \A i \in 1..20 : pair.val[i] = response.val[12 + i]
            /\ pair.ok => NonZeroAddress(pair.val)
            /\ \A k \in 1..Len(locals.pair_addresses) :
                   NonZeroAddress(locals.pair_addresses[k])

\* A word with non-zero high bytes and a zero address is reported missing.
C10_Witness ==
    /\ locals.pair = Err("PairNotFound")
    /\ locals.pair_response.ok
    /\ locals.pair_response.val[1] = 255

----------------------------------------------------------------------------
(* C11: decoding of the pool's getReserves answer *)

\* The number a 32-byte word spells, read byte by byte (the reserves of the
\* model's pools fill the low three bytes).
WordValue(word) ==
    word[30] * 65536 + word[31] * 256 + word[32]

HighBytesZero(word) == \A k \in 1..29 : word[k] = 0

\* C11: get_reserves returns the first two 32-byte words of the pool's
\* answer as (reserve0, reserve1) whatever follows the first 64 bytes, gives
\* the malformed-return error for an answer shorter than 64 bytes and
\* InsufficientLiquidity when either word is zero, so the reserves of a
\* returned pair, and every pair pushed for a hop, are both non-zero.
C11_GetReservesDecoding ==
    locals.pool_reserves # NoRet =>
        LET response == locals.reserves_response
            got == locals.pool_reserves
        IN  /\ (response.ok /\ Len(response.val) < 64) => got = Err("AbiError")
            /\ (response.ok /\ Len(response.val) >= 64) =>
                   LET word0 == [k \in 1..32 |-> response.val[k]]
                       word1 == [k \in 1..32 |-> response.val[32 + k]]
                   IN  /\ HighBytesZero(word0) /\ HighBytesZero(word1)
                       /\ IF WordValue(word0) = 0 \/ WordValue(word1) = 0
                          THEN got = Err("InsufficientLiquidity")
                          ELSE got = Ok(<<WordValue(word0), WordValue(word1)>>)
            /\ got.ok => got.val[1] > 0 /\ got.val[2] > 0
            /\ \A k \in 1..Len(locals.reserves) :
                   locals.reserves[k][1] > 0 /\ locals.reserves[k][2] > 0

\* An answer of three words (reserves and a timestamp) gives the first two.
C11_Witness ==
    /\ locals.reserves_response.ok
    /\ Len(locals.reserves_response.val) = 96
    /\ locals.reserves_response.val[96] = 7
    /\ locals.pool_reserves = Ok(<<20, 100>>)

----------------------------------------------------------------------------
(* format_units applied to bounded amounts and decimal counts *)

FormatAmounts ==
    {0, 1, 5, 10, 15, 100, 105, 1500, 123456, 1000000, 1000001, 1005000, U256Max}

DecimalCounts == 0..MaxDecimals

InitFormatUnits ==
    /\ args \in [amount : FormatAmounts, decimals : DecimalCounts]
    /\ ret = NoRet
    /\ prev = NoRet
    /\ fpc = "ready"
    /\ RequestIdle

CallFormatUnits ==
    /\ fpc = "ready"
    /\ ret' = format_units(args.amount, args.decimals)
    /\ fpc' = "returned"
    /\ UNCHANGED <<args, prev>>
    /\ UNCHANGED request_vars

NextFormatUnits == CallFormatUnits

SpecFormatUnits == InitFormatUnits /\ [][NextFormatUnits]_vars

----------------------------------------------------------------------------
(* C12: the text format_units returns *)

AllDigits(text) == \A k \in 1..Len(text) : is_digit(text[k])

\* The number a sequence of digits spells.
RECURSIVE DecimalValue(_)
DecimalValue(digits) ==
    IF digits = <<>> THEN 0
    ELSE DecimalValue(SubSeq(digits, 1, Len(digits) - 1)) * 10
             + digit_value(digits[Len(digits)])

\* text is n written in decimal without leading zeros.
IsDecimalOf(text, n) ==
    /\ text # <<>>
    /\ AllDigits(text)
    /\ Len(text) > 1 => text[1] # "0"
    /\ DecimalValue(text) = n

\* text is amount / 10^decimals written as the claim says: the whole part,
\* and for a non-zero remainder a point and the remainder's digits at
\* `decimals` places without trailing zeros.
IsFormatOf(text, amount, decimals) ==
    LET whole == amount \div 10^decimals
        remainder == amount % 10^decimals
    IN  IF remainder = 0 THEN IsDecimalOf(text, whole)
        ELSE \E k \in 1..Len(text) :
                /\ text[k] = "."
                /\ IsDecimalOf(SubSeq(text, 1, k - 1), whole)
                /\ LET fraction == SubSeq(text, k + 1, Len(text)) IN
                   /\ Len(fraction) \in 1..decimals
                   /\ AllDigits(fraction)
                   /\ fraction[Len(fraction)] # "0"
                   /\ DecimalValue(fraction) * 10^(decimals - Len(fraction))
                          = remainder

\* C12: for every amount and every decimal count format_units returns the
\* whole part floor(amount / 10^decimals), followed only for a non-zero
\* remainder by a point and the remainder padded to `decimals` digits with
\* its trailing zeros stripped.
C12_FormatUnitsEveryDecimalCount ==
    fpc = "returned" =>
        /\ ret.ok
        /\ IsFormatOf(ret.val, args.amount, args.decimals)

----------------------------------------------------------------------------
(* parse_units applied to bounded texts and decimal counts, and format_units
   applied to what it returned *)

ParseTexts ==
    { <<"0">>, <<"1">>, <<"7">>, <<"1", "0">>, <<"1", "0", "0">>,
      <<"1", ".", "5">>, <<"1", ".", "5", "0">>, <<"0", ".", "5">>,
      <<"1", "2", ".", "5">>, <<"1", "2", "3", ".", "4">>,
      <<"0", ".", "0", "0", "1">>, <<"0", ".", "0", "0", "0", "1">>,
      <<"0", ".", "0", "0", "0", "5">>, <<"1", ".", "0", "0", "0", "0">>,
      <<"1", "0", "2", "3">>, <<"1", "0", "2", "4">>, <<"2", "0", "0", "0">>,
      <<"-", "1">>, <<"-", "1", ".", "5">>,
      <<"a", "b", "c">>, <<"1", "a">>, <<"1", ".", "2", ".", "3">>, <<>> }

InitParseUnits ==
    /\ args \in [amount_str : ParseTexts, decimals : DecimalCounts]
    /\ ret = NoRet
    /\ prev = NoRet
    /\ fpc = "ready"
    /\ RequestIdle

CallParseUnits ==
    /\ fpc = "ready"
    /\ ret' = parse_units(args.amount_str, args.decimals)
    /\ fpc' = "returned"
    /\ UNCHANGED <<args, prev>>
    /\ UNCHANGED request_vars

\* The parsed amount is formatted at the same decimal count.
FormatParsedUnits ==
    /\ fpc = "returned"
    /\ ret.ok
    /\ prev' = ret
    /\ ret' = format_units(ret.val, args.decimals)
    /\ fpc' = "formatted"
    /\ UNCHANGED args
    /\ UNCHANGED request_vars

NextParseUnits == CallParseUnits \/ FormatParsedUnits

SpecParseUnits == InitParseUnits /\ [][NextParseUnits]_vars

----------------------------------------------------------------------------
(* C13, C14, C15: what parse_units makes of a text *)

\* text is digits, or digits, a point and digits.
IsUnsignedDecimal(text) ==
    /\ text # <<>>
    /\ \A k \in 1..Len(text) : is_digit(text[k]) \/ text[k] = "."
    /\ Cardinality({k \in 1..Len(text) : text[k] = "."}) <= 1
    /\ text[1] # "." /\ text[Len(text)] # "."

IsNegativeDecimal(text) ==
    /\ text # <<>>
    /\ text[1] = "-"
    /\ IsUnsignedDecimal(Tail(text))

\* The digits of text before and after its point.
WholeDigits(text) == SelectSeq(SubSeq(text, 1,
                         IF \E k \in 1..Len(text) : text[k] = "."
                         THEN (CHOOSE k \in 1..Len(text) : text[k] = ".") - 1
                         ELSE Len(text)), is_digit)

FractionDigits(text) ==
    IF \E k \in 1..Len(text) : text[k] = "."
    THEN SubSeq(text, (CHOOSE k \in 1..Len(text) : text[k] = ".") + 1, Len(text))
    ELSE <<>>

\* text * 10^decimals is an integer of the U256 width.
ScaledValueFits(text, decimals) ==
    /\ Len(FractionDigits(text)) <= decimals
    /\ DecimalValue(WholeDigits(text) \o FractionDigits(text))
           <= U256Max \div 10^(decimals - Len(FractionDigits(text)))

ScaledValue(text, decimals) ==
    DecimalValue(WholeDigits(text) \o FractionDigits(text))
        * 10^(decimals - Len(FractionDigits(text)))

ParseReturned == fpc = "returned"

\* C13: parse_units fails on non-numeric text, fails with the negative-amount
\* error on a negative text, fails with the precision error exactly when a
\* non-negative text has more fractional digits than `decimals`, and
\* otherwise returns text * 10^decimals (where that fits the integer width).
C13_ParseUnitsClassified ==
    ParseReturned =>
        LET text == args.amount_str
            decimals == args.decimals
        IN  /\ (~IsUnsignedDecimal(text) /\ ~IsNegativeDecimal(text)) => ~ret.ok
            /\ IsNegativeDecimal(text) => ret = Err("NegativeAmount")
            /\ IsUnsignedDecimal(text) =>
                   /\ (ret = Err("PrecisionExceeded"))
                          <=> (Len(FractionDigits(text)) > decimals)
                   /\ ScaledValueFits(text, decimals)
                          => ret = Ok(ScaledValue(text, decimals))

\* C14: every non-negative decimal text whose scaled value fits the U256
\* width is parsed to exactly text * 10^decimals, however many integer
\* digits it has.
C14_ParseUnitsAnyIntegerDigits ==
    (ParseReturned /\ IsUnsignedDecimal(args.amount_str)
                   /\ ScaledValueFits(args.amount_str, args.decimals))
        => ret = Ok(ScaledValue(args.amount_str, args.decimals))

\* s without redundant trailing zeros and without a trailing point.
TrimmedText(text) ==
    IF \E k \in 1..Len(text) : text[k] = "."
    THEN trim_end_matches(trim_end_matches(text, "0"), ".")
    ELSE text

\* A text the round trip is claimed for: a non-negative decimal without
\* leading zeros, of at most `decimals` fractional digits, that fits.
ValidAmountText(text, decimals) ==
    /\ IsUnsignedDecimal(text)
    /\ Len(WholeDigits(text)) > 1 => text[1] # "0"
    /\ ScaledValueFits(text, decimals)

\* C15: for a valid non-negative text s of at most d fractional digits,
\* parse_units(s, d) succeeds and format_units of the result at d is s
\* without redundant trailing zeros and trailing point.
C15_ParseFormatRoundTrip ==
    ValidAmountText(args.amount_str, args.decimals) =>
        /\ ParseReturned => ret.ok
        /\ fpc = "formatted" => ret = Ok(TrimmedText(args.amount_str))

----------------------------------------------------------------------------
(* calculate_price_ratio applied to bounded reserves and decimal counts, and
   format_u256_division_fallback applied to the same arguments *)

NumeratorReserves == {0, 1, 2, 5, 10, 50, 5000, 20000}
DenominatorReserves == {0, 1, 3, 4, 1000}
PriceDecimalCounts == {0, 1, 2, 4, MaxDecimals}

InitPriceRatio ==
    /\ args \in [numerator_reserve : NumeratorReserves,
                 denominator_reserve : DenominatorReserves,
                 numerator_decimals : PriceDecimalCounts,
                 denominator_decimals : PriceDecimalCounts,
                 rounding : DisplayRoundings]
    /\ ret = NoRet
    /\ prev = NoRet
    /\ fpc = "ready"
    /\ RequestIdle

CallPriceRatio ==
    /\ fpc = "ready"
    /\ ret' = calculate_price_ratio(args.numerator_reserve, args.denominator_reserve,
                                    args.numerator_decimals, args.denominator_decimals,
                                    args.rounding)
    /\ fpc' = "returned"
    /\ UNCHANGED <<args, prev>>
    /\ UNCHANGED request_vars

\* The fallback routine called with the same arguments.
CallDivisionFallback ==
    /\ fpc = "returned"
    /\ prev' = format_u256_division_fallback(
                   args.numerator_reserve, args.denominator_reserve,
                   args.numerator_decimals, args.denominator_decimals)
    /\ fpc' = "compared"
    /\ UNCHANGED <<args, ret>>
    /\ UNCHANGED request_vars

NextPriceRatio == CallPriceRatio \/ CallDivisionFallback

SpecPriceRatio == InitPriceRatio /\ [][NextPriceRatio]_vars

----------------------------------------------------------------------------
(* C16, C17, C18: the price ratio and its two paths *)

PriceRatioReturned == fpc \in {"returned", "compared"}

\* Decimal places the numerator, and the denominator, is shifted up by.
ShiftUp == IF args.numerator_decimals >= args.denominator_decimals
           THEN args.numerator_decimals - args.denominator_decimals ELSE 0

ShiftDown == IF args.denominator_decimals > args.numerator_decimals
             THEN args.denominator_decimals - args.numerator_decimals ELSE 0

\* The exact ratio at PriceDigits places is within the integers of the width.
ExactRatioComputable ==
    /\ ShiftUp + PriceDigits < digit_count(U256Max)
    /\ ShiftDown < digit_count(U256Max)
    /\ args.numerator_reserve <= U256Max \div 10^(ShiftUp + PriceDigits)
    /\ args.denominator_reserve <= U256Max \div 10^ShiftDown

\* floor of (numerator / denominator) * 10^(decimal difference) * 10^PriceDigits
ExactRatioFloor ==
    (args.numerator_reserve * 10^(ShiftUp + PriceDigits))
        \div (args.denominator_reserve * 10^ShiftDown)

ExactRatioIsWhole ==
    (args.numerator_reserve * 10^(ShiftUp + PriceDigits))
        % (args.denominator_reserve * 10^ShiftDown) = 0

\* The price a text of at most PriceDigits fractional digits spells, in units
\* of the last place.
PriceUnits(text) ==
    DecimalValue(WholeDigits(text)) * 10^PriceDigits
        + DecimalValue(FractionDigits(text))
              * 10^(PriceDigits - Len(FractionDigits(text)))

IsPriceText(text) ==
    IsUnsignedDecimal(text) /\ Len(FractionDigits(text)) <= PriceDigits

\* C16: a zero denominator reserve gives "0"; for every other input
\* calculate_price_ratio returns a price text, and that text is
\* (numerator / denominator) * 10^(numerator_decimals - denominator_decimals)
\* to PriceDigits fractional digits (cut or rounded in the last place).
C16_PriceRatioScaledThenDivided ==
    PriceRatioReturned =>
        IF args.denominator_reserve = 0 THEN ret.result = Ok(<<"0">>)
        ELSE /\ ret.result.ok
             /\ IsPriceText(ret.result.val)
             /\ ExactRatioComputable =>
                    \/ PriceUnits(ret.result.val) = ExactRatioFloor
                    \/ /\ ~ExactRatioIsWhole
                       /\ PriceUnits(ret.result.val) = ExactRatioFloor + 1

\* C17: whenever calculate_price_ratio took its primary path, the text it
\* returned and the text of format_u256_division_fallback for the same
\* arguments are the same number to PriceDigits fractional digits.
C17_PrimaryAgreesWithFallback ==
    (fpc = "compared" /\ ret.path = "primary") =>
        /\ ret.result.ok
        /\ prev.ok
        /\ TrimmedText(ret.result.val) = TrimmedText(prev.val)

\* The extreme-reserve scenario at the model's width: a whole ratio of two
\* large reserves at 0 decimals.
ExtremeReserves ==
    /\ args # <<>>
    /\ args.numerator_reserve = 5000
    /\ args.denominator_reserve = 1000
    /\ args.numerator_decimals = 0
    /\ args.denominator_decimals = 0

\* C18 as stated: the scenario's ratio is the text with ".0" and comes from
\* the fallback path.
C18_ExtremeRatioViaFallback ==
    (ExtremeReserves /\ PriceRatioReturned) =>
        /\ ret.path = "fallback"
        /\ ret.result = Ok(<<"5", ".", "0">>)

\* C18: in the scenario the scaled ratio is within the Decimal range, so
\* calculate_price_ratio takes the primary path and returns the whole number
\* without a fraction; the text with ".0" is what
\* format_u256_division_fallback returns when called with these arguments.
C18_ExtremeRatioViaPrimary ==
    (ExtremeReserves /\ PriceRatioReturned) =>
        /\ (args.numerator_reserve * 10^PrecisionDigits)
               \div args.denominator_reserve <= DecimalMax
        /\ ret.path = "primary"
        /\ ret.result = Ok(<<"5">>)
        /\ fpc = "compared" => prev = Ok(<<"5", ".", "0">>)

C18_Witness ==
    /\ ExtremeReserves
    /\ fpc = "compared"
    /\ ret = Via("primary", Ok(<<"5">>))
    /\ prev = Ok(<<"5", ".", "0">>)

----------------------------------------------------------------------------
(* parse_string_return applied to answers of bounded shapes, and symbol()
   returning on the same answer *)

\* "USDC", a byte that is not UTF-8, and a two-byte character.
StringPayloads == { <<85, 83, 68, 67>>, <<255, 83, 68, 67>>, <<195, 169, 68, 67>> }

BufferLengths == {63, 64, 96, 128}
OffsetWords == {0, 32, 40, 64, 96, 1000}
LengthWords == {0, 1, 4, 40, 250, 1000}

\* An answer of len bytes: the offset word, the length word, the payload,
\* then zeros.
StringBuffer(len, offset, length, payload) ==
    SubSeq(to_big_endian(offset) \o to_big_endian(length) \o payload \o Zeros(64),
           1, len)

InitParseStringReturn ==
    /\ \E len \in BufferLengths, offset \in OffsetWords,
          length \in LengthWords, payload \in StringPayloads,
          overflow_checks \in BOOLEAN :
          args = [data |-> StringBuffer(len, offset, length, payload),
                  overflow_checks |-> overflow_checks]
    /\ ret = NoRet
    /\ prev = NoRet
    /\ fpc = "ready"
    /\ RequestIdle

CallParseStringReturn ==
    /\ fpc = "ready"
    /\ ret' = parse_string_return(args.data, args.overflow_checks)
    /\ fpc' = "returned"
    /\ UNCHANGED <<args, prev>>
    /\ UNCHANGED request_vars

\* symbol() returns on the same answer.
SymbolReturn ==
    /\ fpc = "returned"
    /\ prev' = string_return(Ok(args.data), args.overflow_checks)
    /\ fpc' = "wrapped"
    /\ UNCHANGED <<args, ret>>
    /\ UNCHANGED request_vars

NextParseStringReturn == CallParseStringReturn \/ SymbolReturn

SpecParseStringReturn == InitParseStringReturn /\ [][NextParseStringReturn]_vars

----------------------------------------------------------------------------
(* C19: malformed string answers *)

\* The 32-byte word of data that starts after `at` bytes.
WordAfter(data, at) == [k \in 1..32 |-> data[at + k]]

\* The offset word, the length word or the string bytes run past the end of
\* data (a word with a byte above its low three points past any answer).
RunsPastEnd(data) ==
    \/ Len(data) < 64
    \/ ~HighBytesZero(WordAfter(data, 0))
    \/ LET offset == WordValue(WordAfter(data, 0)) IN
       \/ offset + 32 > Len(data)
       \/ ~HighBytesZero(WordAfter(data, offset))
       \/ offset + 32 + WordValue(WordAfter(data, offset)) > Len(data)

\* The bytes the offset and length words of a well-formed answer point at.
StringBytes(data) ==
    LET offset == WordValue(WordAfter(data, 0))
        length == WordValue(WordAfter(data, offset))
    IN  [k \in 1..length |-> data[offset + 32 + k]]

\* A sequence of characters of one byte, or of two bytes (a lead byte and a
\* continuation byte).
RECURSIVE IsShortUtf8(_)
IsShortUtf8(bytes) ==
    \/ bytes = <<>>
    \/ bytes[1] < 128 /\ IsShortUtf8(Tail(bytes))
    \/ /\ Len(bytes) >= 2
       /\ bytes[1] \in 194..223
       /\ bytes[2] \in 128..191
       /\ IsShortUtf8(Tail(Tail(bytes)))

\* C19: for every answer whose offset word, length word or string bytes run
\* past its end, or whose string bytes are not UTF-8, parse_string_return
\* returns None (it does not abort) and symbol() returns the malformed-return
\* error; for every other answer it returns the string bytes.
C19_MalformedStringIsAValue ==
    fpc \in {"returned", "wrapped"} =>
        IF RunsPastEnd(args.data) \/ ~IsShortUtf8(StringBytes(args.data))
        THEN /\ ret = Ok(None)
             /\ fpc = "wrapped" => prev = Err("AbiError")
        ELSE /\ ret = Ok(Some(StringBytes(args.data)))
             /\ fpc = "wrapped" => prev = Ok(StringBytes(args.data))

----------------------------------------------------------------------------
(* token_info: three metadata queries joined *)

UsdcAnswer == StringBuffer(96, 32, 4, <<85, 83, 68, 67>>)

\* Answers to symbol() and name(): a transport failure, a well-formed
\* string, a short answer, and answers whose offset or length word points
\* past the end.
StringResponses ==
    { TransportFailure, Ok(UsdcAnswer), Ok(Zeros(63)),
      Ok(StringBuffer(64, 40, 0, <<>>)), Ok(StringBuffer(96, 32, 40, <<85>>)) }

\* Answers to decimals(): a transport failure, nothing, one byte, a word, a
\* word above u32, and two bytes.
DecimalsResponses ==
    { TransportFailure, Ok(<<>>), Ok(<<6>>), Ok(to_big_endian(8)),
      Ok(<<1>> \o Zeros(31)), Ok(<<1, 2>>) }

NoQueries ==
    [symbol_response |-> NoRet, symbol_res |-> NoRet,
     name_response |-> NoRet, name_res |-> NoRet,
     decimals_response |-> NoRet, decimals_res |-> NoRet,
     completed |-> <<>>]

InitTokenInfo ==
    /\ FormulaIdle
    /\ tokens = <<>>
    /\ provider \in BOOLEAN
    /\ request \in [token : {DAI, USDT}, overflow_checks : BOOLEAN]
    /\ pc = "start"
    /\ locals = NoQueries
    /\ calls = <<>>
    /\ outcome = NoRet

\* A query of the join completed with res: a panic ends token_info at once,
\* the last completion lets token_info return.
QueryCompleted(joined) ==
    IF IsPanic(joined.symbol_res) \/ IsPanic(joined.name_res)
           \/ IsPanic(joined.decimals_res)
    THEN /\ outcome' = Panic
         /\ pc' = "done"
    ELSE IF joined.symbol_res # NoRet /\ joined.name_res # NoRet
                /\ joined.decimals_res # NoRet
    THEN /\ outcome' = token_info_joined(request.token, joined.symbol_res,
                                         joined.name_res, joined.decimals_res)
         /\ pc' = "done"
    ELSE /\ pc' = "join"
         /\ UNCHANGED outcome

\* token_info is called: the first poll of the join runs every query to its
\* provider call, or to its end when there is no provider.
TokenInfoStart ==
    /\ pc = "start"
    /\ IF provider
       THEN /\ calls' = <<symbol_call(request.token), name_call(request.token),
                          decimals_call(request.token)>>
            /\ pc' = "join"
            /\ UNCHANGED <<locals, outcome>>
       ELSE LET unavailable == Err("ProviderUnavailable")
                joined == [locals EXCEPT !.symbol_res = unavailable,
                                         !.name_res = unavailable,
                                         !.decimals_res = unavailable,
                                         !.completed = <<"symbol", "name", "decimals">>]
            IN  /\ locals' = joined
                /\ QueryCompleted(joined)
                /\ UNCHANGED calls
    /\ UNCHANGED <<provider, request, tokens>>
    /\ UNCHANGED formula_vars

SymbolCompletes ==
    /\ pc = "join"
    /\ locals.symbol_res = NoRet
    /\ \E response \in StringResponses :
          LET joined == [locals EXCEPT
                            !.symbol_response = response,
                            !.symbol_res = string_return(response, request.overflow_checks),
                            !.completed = Append(@, "symbol")]
          IN  locals' = joined /\ QueryCompleted(joined)
    /\ UNCHANGED <<provider, request, calls, tokens>>
    /\ UNCHANGED formula_vars

NameCompletes ==
    /\ pc = "join"
    /\ locals.name_res = NoRet
    /\ \E response \in StringResponses :
          LET joined == [locals EXCEPT
                            !.name_response = response,
                            !.name_res = string_return(response, request.overflow_checks),
                            !.completed = Append(@, "name")]
          IN  locals' = joined /\ QueryCompleted(joined)
    /\ UNCHANGED <<provider, request, calls, tokens>>
    /\ UNCHANGED formula_vars

DecimalsCompletes ==
    /\ pc = "join"
    /\ locals.decimals_res = NoRet
    /\ \E response \in DecimalsResponses :
          LET joined == [locals EXCEPT
                            !.decimals_response = response,
                            !.decimals_res = decimals_return(response),
                            !.completed = Append(@, "decimals")]
          IN  locals' = joined /\ QueryCompleted(joined)
    /\ UNCHANGED <<provider, request, calls, tokens>>
    /\ UNCHANGED formula_vars

NextTokenInfo ==
    \/ TokenInfoStart
    \/ SymbolCompletes
    \/ NameCompletes
    \/ DecimalsCompletes

SpecTokenInfo == InitTokenInfo /\ [][NextTokenInfo]_vars

----------------------------------------------------------------------------
(* C20: the lookup tolerates failed queries *)

\* The field a string query with this answer gives: the string of the
\* well-formed answer, the default for any other answer.
StringFieldOf(response, default) ==
    IF response = Ok(UsdcAnswer) THEN <<85, 83, 68, 67>> ELSE default

\* The decimals a query with this answer gives.
DecimalsFieldOf(response) ==
    IF response = Ok(<<6>>) THEN 6
    ELSE IF response = Ok(to_big_endian(8)) THEN 8
    ELSE 18

\* C20: the three calls are dispatched together before any answer; token_info
\* returns only after all three queries completed, and never fails: its
\* fields are the queried values or, each on its own, the defaults, whatever
\* the order in which the queries completed.
C20_TokenInfoNeverFails ==
    /\ pc = "join" => Len(calls) = 3
    /\ pc = "done" =>
           /\ outcome.ok
           /\ locals.symbol_res # NoRet /\ locals.name_res # NoRet
                                        /\ locals.decimals_res # NoRet
           /\ Len(locals.completed) = 3
           /\ outcome.val.symbol = StringFieldOf(locals.symbol_response, UNKNOWN)
           /\ outcome.val.name = StringFieldOf(locals.name_response, UnknownToken)
           /\ outcome.val.decimals = DecimalsFieldOf(locals.decimals_response)

----------------------------------------------------------------------------
(* decimals() returning on answers of bounded shapes *)

\* Answers to decimals(): one byte, a 32-byte word (small, above u8, above
\* u32), other lengths, and a transport failure.
DecimalsAnswers ==
    {Ok(<<b>>) : b \in (0..30) \cup {255}}
        \cup {Ok(to_big_endian(v)) : v \in (0..30) \cup {255, 256, 262, 274, 70000}}
        \cup { Ok(<<1>> \o Zeros(31)), Ok(<<>>), Ok(<<1, 2>>), Ok(Zeros(31)),
               Ok(Zeros(33)), TransportFailure }

InitDecimals ==
    /\ args \in [response : DecimalsAnswers]
    /\ ret = NoRet
    /\ prev = NoRet
    /\ fpc = "ready"
    /\ RequestIdle

CallDecimals ==
    /\ fpc = "ready"
    /\ ret' = decimals_return(args.response)
    /\ fpc' = "returned"
    /\ UNCHANGED <<args, prev>>
    /\ UNCHANGED request_vars

NextDecimals == CallDecimals

SpecDecimals == InitDecimals /\ [][NextDecimals]_vars

----------------------------------------------------------------------------
(* C21: the decimal count decimals() reads *)

\* C21: a 1-byte answer gives its byte, a 32-byte answer gives the integer
\* it encodes, an empty answer or one of any other length is the
\* malformed-return error, and decimals() never returns a count that is not
\* the encoded integer.
C21_DecimalsIsEncodedInteger ==
    (fpc = "returned" /\ args.response.ok) =>
        LET result == args.response.val IN
        CASE Len(result) = 1 -> ret = Ok(result[1])
          [] Len(result) = 32 ->
                 IF HighBytesZero(result) /\ WordValue(result) <= 255
                 THEN ret = Ok(WordValue(result))
                 ELSE ~ret.ok
          [] OTHER -> ret = Err("AbiError")

----------------------------------------------------------------------------
(* C22: the order of the chain queries of one request *)

\* The number of hops of the request's path.
HopCount == IF locals.path = <<>> THEN 0 ELSE Len(locals.path) - 1

\* The k-th query of a request in the order getPair, getReserves per hop,
\* then the router call, then the gas estimation.
ExpectedCall(k) ==
    IF k <= 2 * HopCount
    THEN IF k % 2 = 1
         THEN get_pair_call(locals.path[(k + 1) \div 2], locals.path[(k + 1) \div 2 + 1])
         ELSE get_reserves_call(locals.pair_addresses[k \div 2])
    ELSE IF k = 2 * HopCount + 1 THEN locals.tx
    ELSE [locals.tx EXCEPT !.method = "eth_estimateGas"]

\* A stage before the router call has failed: a getPair or getReserves
\* query (the call or its decoding), or the amount chain.
PairStageFailed ==
    locals.pair_response # NoRet /\ (~locals.pair_response.ok \/ ~locals.pair.ok)

ReservesStageFailed ==
    locals.reserves_response # NoRet
        /\ (~locals.reserves_response.ok \/ ~locals.pool_reserves.ok)

AmountStageFailed ==
    /\ HopCount >= 1
    /\ Len(locals.reserves) = HopCount
    /\ ~calculate_amounts_out(request.amount_in, locals.reserves).ok

IsErrorValue(result) == ~result.ok /\ result # NoRet /\ ~IsPanic(result)

QueriesInOrder ==
    /\ Len(calls) <= 2 * HopCount + 2
    /\ \A k \in 1..Len(calls) : calls[k] = ExpectedCall(k)
    /\ pc = "get_pair" => Len(calls) = 2 * locals.i - 1
    /\ pc = "get_reserves" => Len(calls) = 2 * locals.i
    /\ pc = "router_call" => Len(calls) = 2 * HopCount + 1
    /\ pc = "estimate_gas" => Len(calls) = 2 * HopCount + 2
    /\ Len(calls) > 2 * HopCount =>
           /\ request.op = "simulate_swap"
           /\ Len(locals.reserves) = HopCount
           /\ calculate_amounts_out(request.amount_in, locals.reserves).ok
           /\ locals.quote.ok
    /\ Len(calls) = 2 * HopCount + 2 => locals.call_response.ok
    /\ PairStageFailed =>
           /\ pc = "done"
           /\ IsErrorValue(outcome)
           /\ Len(calls) = 2 * locals.i - 1
    /\ ReservesStageFailed =>
           /\ pc = "done"
           /\ IsErrorValue(outcome)
           /\ Len(calls) = 2 * locals.i
    /\ AmountStageFailed =>
           /\ pc = "done"
           /\ IsErrorValue(outcome)
           /\ Len(calls) = 2 * HopCount
    /\ (pc = "done" /\ ~outcome.ok) => Len(calls) <= 2 * HopCount

\* A step issues at most one query, after the ones already issued, and only
\* when the answer to the previous one has been received.
OneQueryAtATime ==
    \/ calls' = calls
    \/ /\ Len(calls') = Len(calls) + 1
       /\ SubSeq(calls', 1, Len(calls)) = calls
       /\ pc \in {"start", "get_pair", "get_reserves", "router_call"}
       /\ pc' \in {"get_pair", "get_reserves", "router_call", "estimate_gas"}

\* C22: within one request the queries are issued one after the other in
\* the order getPair, getReserves for each hop in path order, then (after
\* the amount chain) the router call, then, only after a successful router
\* call, the gas estimation; a failed stage before the router call ends the
\* request with an error, with no later query and no repetition.
C22_QueriesStrictlySequential == []QueriesInOrder /\ [][OneQueryAtATime]_vars

C22_Witness ==
    /\ pc = "done"
    /\ request.op = "simulate_swap"
    /\ HopCount = 2
    /\ Len(calls) = 6
    /\ calls[6].method = "eth_estimateGas"

----------------------------------------------------------------------------
(* C23: how often one quote reads a pool *)

\* The positions of the getReserves queries sent to pool.
ReservesReads(pool) ==
    {k \in 1..Len(calls) : calls[k] = get_reserves_call(pool)}

\* The factory's answers so far are those of one factory: the hops of one
\* unordered token pair got the same pool, other hops a different one.
FactoryConsistent ==
    \A j, k \in 1..Len(locals.pair_addresses) :
        (locals.pair_addresses[j] = locals.pair_addresses[k])
            <=> ({locals.path[j], locals.path[j + 1]}
                     = {locals.path[k], locals.path[k + 1]})

\* C23: within one quote, whatever the two input tokens are, no pool's
\* reserves are read more than once.
C23_PoolReadAtMostOnce ==
    FactoryConsistent =>
        \A k \in 1..Len(locals.pair_addresses) :
            Cardinality(ReservesReads(locals.pair_addresses[k])) <= 1

----------------------------------------------------------------------------
(* Ordering a pool's reserves by token address *)

OrderTokens == {weth, DAI, USDT, usdc_addr}

SlotValues == 1..3

InitReserveOrder ==
    /\ args \in [token_a : OrderTokens, token_b : OrderTokens,
                 reserve0 : SlotValues, reserve1 : SlotValues]
    /\ ret = NoRet
    /\ prev = NoRet
    /\ fpc = "ready"
    /\ RequestIdle

\* get_reserves_for_path orders the reserves of the hop token_a -> token_b.
CallHopReserves ==
    /\ fpc = "ready"
    /\ ret' = Ok(hop_reserves(args.token_a, args.token_b,
                              args.reserve0, args.reserve1))
    /\ fpc' = "hop"
    /\ UNCHANGED <<args, prev>>
    /\ UNCHANGED request_vars

\* get_token_price orders the reserves of the pool of token_a and WETH.
CallTokenPoolReserves ==
    /\ fpc = "ready"
    /\ ret' = Ok(token_pool_reserves(args.token_a, weth,
                                     <<args.reserve0, args.reserve1>>))
    /\ fpc' = "token_pool"
    /\ UNCHANGED <<args, prev>>
    /\ UNCHANGED request_vars

\* get_token_price orders the reserves of the WETH/USDC pool.
CallUsdcPoolReserves ==
    /\ fpc = "ready"
    /\ ret' = Ok(usdc_pool_reserves(weth, usdc_addr,
                                    <<args.reserve0, args.reserve1>>))
    /\ fpc' = "usdc_pool"
    /\ UNCHANGED <<args, prev>>
    /\ UNCHANGED request_vars

NextReserveOrder ==
    \/ CallHopReserves
    \/ CallTokenPoolReserves
    \/ CallUsdcPoolReserves

SpecReserveOrder == InitReserveOrder /\ [][NextReserveOrder]_vars

----------------------------------------------------------------------------
(* C24: reserve0 belongs to the token with the lower address *)

\* The slot of token in the pool of token and other: reserve0 when token
\* has the lower address.
SlotOf(token, other, reserve0, reserve1) ==
    IF AddressLess(token, other) THEN reserve0 ELSE reserve1

\* C24: the pair handed to the formula for the hop token_a -> token_b is
\* (reserve of token_a, reserve of token_b), reserve_in being reserve0
\* exactly when token_a < token_b; the price lookup takes as the WETH
\* reserve the slot of the WETH address, in the token/WETH pool and in the
\* WETH/USDC pool.
C24_ReservesOrderedByAddress ==
    /\ fpc = "hop" =>
           /\ ret.val[1] = (IF AddressLess(args.token_a, args.token_b)
                            THEN args.reserve0 ELSE args.reserve1)
           /\ args.token_a # args.token_b =>
                  /\ ret.val[1] = SlotOf(args.token_a, args.token_b,
                                         args.reserve0, args.reserve1)
                  /\ ret.val[2] = SlotOf(args.token_b, args.token_a,
                                         args.reserve0, args.reserve1)
    /\ (fpc = "token_pool" /\ args.token_a # weth) =>
           /\ ret.val[2] = SlotOf(weth, args.token_a, args.reserve0, args.reserve1)
           /\ ret.val[1] = SlotOf(args.token_a, weth, args.reserve0, args.reserve1)
    /\ fpc = "usdc_pool" =>
           /\ ret.val[1] = SlotOf(weth, usdc_addr, args.reserve0, args.reserve1)
           /\ ret.val[2] = SlotOf(usdc_addr, weth, args.reserve0, args.reserve1)

C24_Witness ==
    /\ fpc = "hop"
    /\ args.token_a = weth
    /\ args.token_b = DAI
    /\ args.reserve0 = 1
    /\ args.reserve1 = 3
    /\ ret = Ok(<<3, 1>>)

----------------------------------------------------------------------------
(* C25: the router payload of simulate_swap *)

\* The k-th 32-byte argument word of a payload (after the 4-byte selector).
ArgumentWord(data, k) == SubSeq(data, 4 + 32 * (k - 1) + 1, 4 + 32 * k)

\* The 32-byte word starting at byte position offset of the arguments.
ArgumentWordAt(data, offset) == SubSeq(data, 4 + offset + 1, 4 + offset + 32)

\* The addresses of the request's route: direct when one side is WETH.
RouteOf(token_in, token_out) ==
    IF token_in = weth \/ token_out = weth THEN <<token_in, token_out>>
    ELSE <<token_in, weth, token_out>>

\* C25: the payload of the router call for a path of n addresses is
\* 4 + 32*(6+n) bytes: selector 0x38ed1739, amountIn, amountOutMin, the
\* offset 0xa0 (the position of the array length word in the arguments),
\* the recipient right-aligned, a deadline of 32 bytes 0xFF, the count n and
\* the n path addresses right-aligned in path order; the sender and the
\* recipient are the supplied from_address.
C25_RouterPayloadLayout ==
    locals.tx # NoRet =>
        LET data == locals.tx.data
            route == RouteOf(request.token_in, request.token_out)
            n == Len(route)
        IN  /\ request.from_address.some
            /\ Len(data) = 4 + 32 * (6 + n)
            /\ SubSeq(data, 1, 4) = <<56, 237, 23, 57>>
            /\ HighBytesZero(ArgumentWord(data, 1))
            /\ WordValue(ArgumentWord(data, 1)) = request.amount_in
            /\ HighBytesZero(ArgumentWord(data, 2))
            /\ WordValue(ArgumentWord(data, 2)) = request.amount_out_min
            /\ ArgumentWord(data, 3) = Zeros(31) \o <<160>>
            /\ ArgumentWord(data, 4) = Zeros(12) \o request.from_address.val
            /\ ArgumentWord(data, 5) = [i \in 1..32 |-> 255]
            /\ ArgumentWordAt(data, 160) = Zeros(31) \o <<n>>
            /\ ArgumentWordAt(data, 160) = ArgumentWord(data, 6)
            /\ \A k \in 1..n : ArgumentWord(data, 6 + k) = Zeros(12) \o route[k]
            /\ locals.tx.from = Some(request.from_address.val)
            /\ locals.tx.to = router_address
            /\ \A k \in 1..Len(calls) :
                   calls[k].to = router_address =>
                       calls[k].data = data /\ calls[k].from = locals.tx.from

C25_Witness ==
    /\ pc = "router_call"
    /\ request.token_in = DAI
    /\ request.token_out = USDT
    /\ request.amount_in = 10
    /\ request.amount_out_min = 3
    /\ Len(calls[Len(calls)].data) = 4 + 32 * 9

----------------------------------------------------------------------------
(* C26: the revert reason of a failed router call *)

\* The router call of the request has failed with error text error_msg.
RouterCallFailed == locals.call_response # NoRet /\ ~locals.call_response.ok

\* A failed router call gives a result, not an error: a simulation marked
\* as failed that carries a reason.
FailedCallIsAResult ==
    /\ pc = "done"
    /\ outcome.ok
    /\ ~outcome.val.simulation_success
    /\ outcome.val.revert_reason.some

\* C26 as stated: the reason is the insufficient reason for a text with the
\* insufficient pattern, the transfer-allowance reason for one with
\* TRANSFER_FROM_FAILED, the deadline reason for one with EXPIRED, the text
\* itself for a generic revert and the raw text only when nothing matches;
\* every failed call gives simulation_success = false and not an error.
C26_ReasonByPattern ==
    RouterCallFailed =>
        LET error_msg == locals.call_response.err IN
        /\ FailedCallIsAResult
        /\ outcome.val.revert_reason =
               IF contains(error_msg, "insufficient")
               THEN Some(<<"Insufficient liquidity or balance">>)
               ELSE IF contains(error_msg, "TRANSFER_FROM_FAILED")
               THEN Some(<<"Token transfer failed (check allowance)">>)
               ELSE IF contains(error_msg, "EXPIRED")
               THEN Some(<<"Transaction deadline expired">>)
               ELSE Some(error_msg)

\* C26 (amended): the patterns are tried in the order generic revert,
\* insufficient, TRANSFER_FROM_FAILED, EXPIRED: a text with "execution
\* reverted" is reported as itself even when it holds another pattern, and
\* among the others the first pattern in that order decides; with no
\* pattern the raw text is the reason. Every failed call gives a result
\* with simulation_success = false and a reason.
C26_ReasonByFirstPattern ==
    RouterCallFailed =>
        LET error_msg == locals.call_response.err
            reason == outcome.val.revert_reason
        IN  /\ FailedCallIsAResult
            /\ contains(error_msg, "execution reverted") => reason = Some(error_msg)
            /\ (~contains(error_msg, "execution reverted")
                    /\ contains(error_msg, "insufficient")) =>
                   reason = Some(<<"Insufficient liquidity or balance">>)
            /\ (~contains(error_msg, "execution reverted")
                    /\ ~contains(error_msg, "insufficient")
                    /\ contains(error_msg, "TRANSFER_FROM_FAILED")) =>
                   reason = Some(<<"Token transfer failed (check allowance)">>)
            /\ (~contains(error_msg, "execution reverted")
                    /\ ~contains(error_msg, "insufficient")
                    /\ ~contains(error_msg, "TRANSFER_FROM_FAILED")
                    /\ contains(error_msg, "EXPIRED")) =>
                   reason = Some(<<"Transaction deadline expired">>)
            /\ (\A pattern \in {"execution reverted", "insufficient",
                                "TRANSFER_FROM_FAILED", "EXPIRED"} :
                    ~contains(error_msg, pattern)) =>
                   reason = Some(error_msg)

C26_Witness ==
    /\ pc = "done"
    /\ RouterCallFailed
    /\ locals.call_response.err = <<"execution reverted", "insufficient">>
    /\ outcome.ok
    /\ outcome.val.revert_reason = Some(<<"execution reverted", "insufficient">>)

----------------------------------------------------------------------------
(* C27: the output stays inside the pool *)

\* C27: every successful calculate_amount_out result is strictly below
\* reserve_out and leaves the product of the reserves no smaller:
\* (reserve_in + amount_in) * (reserve_out - amount_out) >=
\* reserve_in * reserve_out; so every element after the first of a
\* calculate_amounts_out result is below its hop's reserve_out.
C27_OutputBelowReserveProductKept ==
    (fpc = "returned" /\ "reserves" \in DOMAIN args /\ ret.ok) =>
        \A i \in 1..Len(args.reserves) :
            LET amount_in == ret.val[i]
                amount_out == ret.val[i + 1]
                reserve_in == args.reserves[i][1]
                reserve_out == args.reserves[i][2]
            IN  /\ calculate_amount_out(amount_in, reserve_in, reserve_out)
                       = Ok(amount_out)
                /\ amount_out < reserve_out
                /\ (reserve_in + amount_in) * (reserve_out - amount_out)
                       >= reserve_in * reserve_out

\* 10 through [(100,50),(50,200)]: 4 < 50 and 14 < 200.
C27_Witness ==
    /\ fpc = "returned"
    /\ "reserves" \in DOMAIN args
    /\ args.amount_in = 10
    /\ args.reserves = << <<100, 50>>, <<50, 200>> >>
    /\ ret.ok
    /\ ret.val[2] = 4
    /\ ret.val[3] = 14

----------------------------------------------------------------------------
(* swap_tokens against a pool whose reserves change *)

\* (reserve0, reserve1) of the pool of the request's two tokens; other
\* traders move it from one of these to another.
PoolStates == { <<100, 100>>, <<100, 200>>, <<200, 100>>, <<120, 80>> }

SlippageBps == {0, 50, 5000}

SwapRequests ==
    [from_token : {DAI, USDT}, to_token : {weth}, amount_in : {5, 10},
     slippage_bps : SlippageBps, to_decimals : {0, 2},
     wallet_addr : {simulation_address}]

NoSwapLocals ==
    [first_quote |-> NoRet, minimum_output |-> NoRet, quote |-> NoRet,
     tx |-> NoRet, call_response |-> NoRet, gas_response |-> NoRet]

InitSwapTokens ==
    /\ FormulaIdle
    /\ tokens = <<>>
    /\ provider \in [reserves : PoolStates]
    /\ request \in SwapRequests
    /\ pc = "start"
    /\ locals = NoSwapLocals
    /\ calls = <<>>
    /\ outcome = NoRet

\* quote_swap of the request's tokens when its getReserves query is
\* answered with the pool's reserves of that moment (the pair address, which
\* does not change, is PoolA).
QuoteNow ==
    quote_swap_result(<<request.from_token, request.to_token>>, request.amount_in,
                      << hop_reserves(request.from_token, request.to_token,
                                      provider.reserves[1], provider.reserves[2]) >>,
                      <<PoolA>>)

QuoteQueries ==
    << get_pair_call(request.from_token, request.to_token), get_reserves_call(PoolA) >>

\* swap_tokens' own quote_swap returns; the minimum output is computed from
\* it and simulate_swap is entered.
SwapQuoteReturns ==
    /\ pc = "start"
    /\ LET quote == QuoteNow
           quoted == [locals EXCEPT !.first_quote = quote]
       IN  /\ calls' = calls \o QuoteQueries
           /\ IF ~quote.ok
              THEN /\ Return(IF IsPanic(quote) THEN Panic ELSE Err("internal_error"))
                   /\ locals' = quoted
              ELSE LET minimum_output ==
                           minimum_output_of(quote.val.amount_out, request.slippage_bps)
                   IN  /\ locals' = [quoted EXCEPT !.minimum_output = minimum_output]
                       /\ IF ~minimum_output.ok
                          THEN Return(Panic)
                          ELSE pc' = "simulate" /\ UNCHANGED outcome
    /\ UNCHANGED <<provider, request, tokens>>
    /\ UNCHANGED formula_vars

\* The quote_swap inside simulate_swap returns; the router call is built
\* with the minimum output handed in and dispatched.
SimulateQuoteReturns ==
    /\ pc = "simulate"
    /\ LET quote == QuoteNow
           quoted == [locals EXCEPT !.quote = quote]
       IN  IF ~quote.ok
           THEN /\ Return(IF IsPanic(quote) THEN Panic ELSE Err("internal_error"))
                /\ locals' = quoted
                /\ calls' = calls \o QuoteQueries
           ELSE LET tx == [method |-> "eth_call", to |-> router_address,
                           from |-> Some(request.wallet_addr),
                           data |-> swap_calldata(request.amount_in,
                                                  locals.minimum_output.val,
                                                  request.wallet_addr,
                                                  simulate_swap_path(request.from_token,
                                                                     request.to_token))]
                IN  /\ locals' = [quoted EXCEPT !.tx = tx]
                    /\ calls' = (calls \o QuoteQueries) \o <<tx>>
                    /\ pc' = "router_call"
                    /\ UNCHANGED outcome
    /\ UNCHANGED <<provider, request, tokens>>
    /\ UNCHANGED formula_vars

SwapRouterCallReturn ==
    /\ pc = "router_call"
    /\ \E response \in CallResponses :
          LET received == [locals EXCEPT !.call_response = response] IN
          IF response.ok
          THEN /\ locals' = received
               /\ calls' = Append(calls, [locals.tx EXCEPT !.method = "eth_estimateGas"])
               /\ pc' = "estimate_gas"
               /\ UNCHANGED outcome
          ELSE /\ Return(swap_tokens_result(
                             SwapSimulation(locals.quote.val, None, FALSE,
                                            extract_revert_reason(response.err)),
                             request.slippage_bps, request.to_decimals))
               /\ locals' = received
               /\ UNCHANGED calls
    /\ UNCHANGED <<provider, request, tokens>>
    /\ UNCHANGED formula_vars

SwapEstimateGasReturn ==
    /\ pc = "estimate_gas"
    /\ \E response \in GasResponses :
          LET gas == IF response.ok THEN Some(response.val) ELSE None IN
          /\ Return(swap_tokens_result(
                        SwapSimulation(locals.quote.val, gas, TRUE, None),
                        request.slippage_bps, request.to_decimals))
          /\ locals' = [locals EXCEPT !.gas_response = response]
    /\ UNCHANGED calls
    /\ UNCHANGED <<provider, request, tokens>>
    /\ UNCHANGED formula_vars

\* Another trade changes the pool while the request is running.
ReservesChange ==
    /\ pc \in {"start", "simulate", "router_call", "estimate_gas"}
    /\ \E reserves \in PoolStates \ {provider.reserves} :
          provider' = [provider EXCEPT !.reserves = reserves]
    /\ UNCHANGED <<request, pc, locals, calls, outcome, tokens>>
    /\ UNCHANGED formula_vars

NextSwapTokens ==
    \/ SwapQuoteReturns
    \/ SimulateQuoteReturns
    \/ SwapRouterCallReturn
    \/ SwapEstimateGasReturn
    \/ ReservesChange

SpecSwapTokens == InitSwapTokens /\ [][NextSwapTokens]_vars

----------------------------------------------------------------------------
(* C28: the minimum output sent and the minimum output reported *)

\* The amountOutMin word of the router call of the request.
SentAmountOutMin == WordValue(ArgumentWord(locals.tx.data, 2))

OutputAmounts == 0..200

\* C28: in one swap_tokens request the amountOutMin of the router call is
\* the minimum_output of the result, and both are
\* estimated_output * (10000 - slippage_bps) / 10000 for the
\* estimated_output of that result, whatever the pool does between the
\* reads of the request.
C28_SentMinimumIsReportedMinimum ==
    (pc = "done" /\ outcome.ok) =>
        /\ format_units(SentAmountOutMin, request.to_decimals)
               = Ok(outcome.val.minimum_output)
        /\ \E estimated \in OutputAmounts :
               /\ format_units(estimated, request.to_decimals)
                      = Ok(outcome.val.estimated_output)
               /\ SentAmountOutMin
                      = (estimated * (10000 - request.slippage_bps)) \div 10000

----------------------------------------------------------------------------
(* The registry under balance, price and swap requests *)

\* A token contract the registry does not know.
ArbitraryTokens == { [i \in 1..20 |-> 17] }

\* The texts a request names a token by: "usdc", the built-in USDC address,
\* and the address of an arbitrary contract.
TokenTexts ==
    { <<117, 115, 100, 99>>, default_mainnet_tokens[3][2].address }
        \cup {utf8(format_address(token)) : token \in ArbitraryTokens}

\* What symbol() of an arbitrary contract returns: "usdc", or a failure.
SymbolAnswers == { Ok(<<117, 115, 100, 99>>), Err("AbiError") }

NameAnswers == { Ok(<<84>>) }

DecimalsAnswers18 == { Ok(18) }

InitRegistry ==
    /\ FormulaIdle
    /\ tokens = new_registry
    /\ provider = TRUE
    /\ request = <<>>
    /\ pc = "serving"
    /\ locals = <<>>
    /\ calls = <<>>
    /\ outcome = NoRet

\* The token lookup of get_balance / get_token_price for the token text.
LookupOne(tool) ==
    /\ \E text \in TokenTexts, symbol_res \in SymbolAnswers,
          name_res \in NameAnswers, decimals_res \in DecimalsAnswers18 :
          \E looked \in lookup_token(tokens, text, provider, symbol_res,
                                     name_res, decimals_res) :
              /\ tokens' = looked.tokens
              /\ request' = [tool |-> tool, token |-> text]
              /\ outcome' = looked.token_info

GetBalance ==
    /\ pc = "serving"
    /\ LookupOne("get_balance")
    /\ UNCHANGED <<provider, pc, locals, calls>>
    /\ UNCHANGED formula_vars

GetTokenPrice ==
    /\ pc = "serving"
    /\ LookupOne("get_token_price")
    /\ UNCHANGED <<provider, pc, locals, calls>>
    /\ UNCHANGED formula_vars

\* swap_tokens looks up the source token and then the target token.
SwapTokens ==
    /\ pc = "serving"
    /\ \E from_text \in TokenTexts, to_text \in TokenTexts,
          symbol_res \in SymbolAnswers, to_symbol_res \in SymbolAnswers,
          name_res \in NameAnswers, decimals_res \in DecimalsAnswers18 :
          \E from_looked \in lookup_token(tokens, from_text, provider, symbol_res,
                                          name_res, decimals_res) :
              /\ request' = [tool |-> "swap_tokens", token |-> from_text,
                             to_token |-> to_text]
              /\ IF ~from_looked.token_info.ok
                 THEN /\ tokens' = from_looked.tokens
                      /\ outcome' = from_looked.token_info
                 ELSE \E to_looked \in lookup_token(from_looked.tokens, to_text,
                                                    provider, to_symbol_res,
                                                    name_res, decimals_res) :
                          /\ tokens' = to_looked.tokens
                          /\ outcome' = to_looked.token_info
    /\ UNCHANGED <<provider, pc, locals, calls>>
    /\ UNCHANGED formula_vars

NextRegistry == GetBalance \/ GetTokenPrice \/ SwapTokens

SpecRegistry == InitRegistry /\ [][NextRegistry]_vars

----------------------------------------------------------------------------
(* C29: the built-in symbols keep their tokens *)

\* C29: after any sequence of balance, price and swap requests, every
\* built-in symbol (WETH, ETH, USDC, USDT, DAI, WBTC, UNI) still resolves to
\* its built-in contract address and decimal count.
C29_BuiltInSymbolsKept ==
    pc = "serving" =>
        \A i \in 1..Len(default_mainnet_tokens) :
            LET symbol == default_mainnet_tokens[i][1]
                info == default_mainnet_tokens[i][2]
            IN  \A resolved \in resolve(tokens, symbol) :
                    /\ resolved.some
                    /\ resolved.val.address = info.address
                    /\ resolved.val.decimals = info.decimals

----------------------------------------------------------------------------
(* C30: calculate_price_impact ends with a value or an error *)

\* C30: for every amount_in and reserve_in calculate_price_impact returns
\* InsufficientLiquidity when reserve_in is 0, InvalidAmount when
\* amount_in * 10000 exceeds the largest U256, and otherwise a percentage,
\* also when floor(amount_in * 10000 / reserve_in) does not fit 128 bits; it
\* never aborts.
C30_PriceImpactNeverAborts ==
    (fpc = "returned" /\ "reserve_in" \in DOMAIN args
         /\ "amount_in" \in DOMAIN args /\ ~("reserve_out" \in DOMAIN args)) =>
        /\ ~IsPanic(ret)
        /\ IF args.reserve_in = 0 THEN ret = Err("InsufficientLiquidity")
           ELSE IF args.amount_in > U256Max \div 10000 THEN ret = Err("InvalidAmount")
           ELSE ret.ok

====
